---- MODULE Spec2Model ----
(***************************************************************************)
(* pyEdge: the Solid Edge document engine (services/solid_edge.py), the    *)
(* worker thread that calls it (workers/solid_edge_worker.py) and the      *)
(* window that starts the workers (ui/main_window.py).                     *)
(*                                                                         *)
(* Strings are sequences of one-character strings, so that lower(),        *)
(* strip(), os.path.normcase and os.path.splitext are computed on the      *)
(* characters.  The host (the running Solid Edge) is part of the state:    *)
(* its open documents, which one is active, whether the automation handle  *)
(* can be obtained and how the Documents collection can be traversed.      *)
(***************************************************************************)
EXTENDS Integers, Sequences, FiniteSets, TLC

VARIABLES
    docs,       \* host: the open documents, in the collection's order
    active,     \* host: index in docs of ActiveDocument, 0 when there is none
    reachable,  \* host: GetActiveObject("SolidEdge.Application") succeeds
    coll,       \* host: how application.Documents can be traversed
    itemFails,  \* host: the indices i for which Documents.Item(i) raises
    comDepth,   \* CoInitialize calls not yet matched by CoUninitialize
    call,       \* the last engine call: operation, arguments, outcome, event log
    ui,         \* ModernCADApp: fields and the enabled flags of its controls
    workers     \* the SolidEdgeWorker threads that were started and have not ended

vars == <<docs, active, reachable, coll, itemFails, comDepth, call, ui, workers>>
hostVars == <<docs, active, reachable, coll, itemFails>>
uiVars == <<ui, workers>>

(***************************************************************************)
(* Bounds of the model.                                                    *)
(***************************************************************************)
MaxDocs == 2
MaxEntries == 1

(***************************************************************************)
(* Python values.                                                          *)
(***************************************************************************)
None == <<"<None>">>
Missing == <<"<missing>">>
EmptyStr == <<>>

Truthy(v) == v # None /\ v # EmptyStr

Min(S) == CHOOSE x \in S : \A y \in S : x <= y
Max(S) == CHOOSE x \in S : \A y \in S : x >= y

\* str.lower() on one character
LowerChar(c) ==
    CASE c = "A" -> "a"
      [] c = "B" -> "b"
      [] c = "D" -> "d"
      [] c = "F" -> "f"
      [] c = "M" -> "m"
      [] c = "P" -> "p"
      [] c = "R" -> "r"
      [] c = "S" -> "s"
      [] c = "T" -> "t"
      [] c = "U" -> "u"
      [] c = "X" -> "x"
      [] c = "Y" -> "y"
      [] OTHER -> c

Lower(s) == [i \in 1..Len(s) |-> LowerChar(s[i])]

\* str.strip(): leading and trailing whitespace removed
Strip(s) ==
    LET keep == {i \in 1..Len(s) : s[i] # " "}
    IN  IF keep = {} THEN EmptyStr ELSE SubSeq(s, Min(keep), Max(keep))

\* os.path.normcase on Windows: '/' becomes '\' and the text is lower-cased
NormCase(s) == [i \in 1..Len(s) |-> IF s[i] = "/" THEN "\\" ELSE LowerChar(s[i])]

\* str.rfind of a one-character needle, 1-based; 0 when absent
RFind(s, chars) ==
    LET at == {i \in 1..Len(s) : s[i] \in chars}
    IN  IF at = {} THEN 0 ELSE Max(at)

\* os.path.splitext(p)[1]: the text from the last dot of the last path
\* component, unless that component has only leading dots before it
SplitExt(p) ==
    LET sepIndex == RFind(p, {"\\", "/"})
        dotIndex == RFind(p, {"."})
    IN  IF dotIndex > sepIndex
             /\ \E i \in (sepIndex + 1)..(dotIndex - 1) : p[i] # "."
        THEN SubSeq(p, dotIndex, Len(p))
        ELSE EmptyStr

\* the characters the model's strings are made of, in code-point order
Alphabet ==
    <<" ", "-", ".", "/", "0", "1", "2", "3", "4", "5", "6", "7", "8", "9", ":",
      "A", "B", "D", "F", "M", "P", "R", "S", "T", "U", "X", "Y", "\\",
      "a", "b", "c", "d", "e", "f", "i", "l", "m", "n", "o", "p", "r", "s", "t", "u", "v",
      "x", "y">>

\* lexicographic order on strings, as Python compares str
RECURSIVE StrLess(_, _)
StrLess(a, b) ==
    IF b = EmptyStr THEN FALSE
    ELSE IF a = EmptyStr THEN TRUE
    ELSE LET Ord(c) == CHOOSE n \in 1..Len(Alphabet) : Alphabet[n] = c
         IN  IF Head(a) = Head(b) THEN StrLess(Tail(a), Tail(b))
             ELSE Ord(Head(a)) < Ord(Head(b))

(***************************************************************************)
(* The host's documents.  A document handle is an index into docs.         *)
(*   Name, FullName : a string, or Missing when the attribute is absent    *)
(*   Type           : the raw type code, 0 when the attribute is absent    *)
(*   fault          : reading Name raises a COM error                      *)
(*   propSet        : how the custom property set can be found             *)
(*   props          : the custom properties, in the set's order            *)
(*   rejects        : property names whose Value assignment and Add raise  *)
(*   dateStore      : how the host hands back a date-time it was given     *)
(***************************************************************************)
s_dft == <<"s", ".", "d", "f", "t">>
S_DFT == <<"S", ".", "D", "F", "T">>
b_par == <<"b", ".", "p", "a", "r">>
a_noext == <<"a">>
x_s_dft == <<"x", "\\", "s", ".", "d", "f", "t">>
y_s_dft == <<"y", "\\", "s", ".", "d", "f", "t">>
X_S_DFT == <<"X", "/", "S", ".", "D", "F", "T">>
y_S_DFT == <<"y", "\\", "S", ".", "D", "F", "T">>
x_b_par == <<"x", "\\", "b", ".", "p", "a", "r">>
blank == <<" ">>
Rev == <<"R", "e", "v">>
one == <<"1">>

(***************************************************************************)
(* Property values: what a COM property holds and what the editor sends.   *)
(***************************************************************************)
StrVal(s) == [k |-> "str", s |-> s]
BoolVal(b) == [k |-> "bool", v |-> b]
NumVal(n) == [k |-> "num", n |-> n]
DateTimeVal(y, m, d) == [k |-> "datetime", y |-> y, m |-> m, d |-> d]
NoneVal == [k |-> "none"]

DigitChars == <<"0", "1", "2", "3", "4", "5", "6", "7", "8", "9">>
IsDigit(c) == \E n \in 1..Len(DigitChars) : DigitChars[n] = c
DigitVal(c) == (CHOOSE n \in 1..Len(DigitChars) : DigitChars[n] = c) - 1

RECURSIVE ToNum(_)
ToNum(p) == IF p = <<>> THEN 0 ELSE 10 * ToNum(SubSeq(p, 1, Len(p) - 1)) + DigitVal(p[Len(p)])

\* the decimal digits of n, zero-padded to at least width characters
RECURSIVE Digits(_, _)
Digits(n, width) ==
    IF n < 10 /\ width <= 1 THEN <<DigitChars[n + 1]>>
    ELSE Digits(n \div 10, width - 1) \o <<DigitChars[(n % 10) + 1]>>

\* s.split(c, 1)[0]
Before(s, c) ==
    LET at == {i \in 1..Len(s) : s[i] = c}
    IN  IF at = {} THEN s ELSE SubSeq(s, 1, Min(at) - 1)

\* s.split(c)
RECURSIVE SplitAll(_, _)
SplitAll(s, c) ==
    LET at == {i \in 1..Len(s) : s[i] = c}
    IN  IF at = {} THEN <<s>>
        ELSE <<SubSeq(s, 1, Min(at) - 1)>> \o SplitAll(SubSeq(s, Min(at) + 1, Len(s)), c)

\* str(value)
Str(v) ==
    CASE v.k = "str" -> v.s
      [] v.k = "bool" -> IF v.v THEN <<"T", "r", "u", "e">> ELSE <<"F", "a", "l", "s", "e">>
      [] v.k = "num" -> Digits(v.n, 1)
      [] v.k = "datetime" ->
            Digits(v.y, 4) \o <<"-">> \o Digits(v.m, 2) \o <<"-">> \o Digits(v.d, 2)
                \o <<" ", "0", "0", ":", "0", "0", ":", "0", "0">>
      [] v.k = "none" -> <<"N", "o", "n", "e">>

\* the truth value of a Python value
Falsy(v) ==
    \/ v.k = "none"
    \/ v.k = "str" /\ v.s = <<>>
    \/ v.k = "bool" /\ ~v.v
    \/ v.k = "num" /\ v.n = 0

\* str(value or "").strip()
StrOrEmptyStripped(v) == IF Falsy(v) THEN <<>> ELSE Strip(Str(v))

IsLeap(y) == (y % 4 = 0 /\ y % 100 # 0) \/ y % 400 = 0

DaysIn(y, m) ==
    IF m = 2 THEN (IF IsLeap(y) THEN 29 ELSE 28)
    ELSE IF m \in {4, 6, 9, 11} THEN 30 ELSE 31

\* the text of one strptime field: %Y is four digits; %m and %d are one or two
\* digits (%d also a blank and one digit), not zero
IsYearText(p) == Len(p) = 4 /\ (\A i \in 1..4 : IsDigit(p[i])) /\ ToNum(p) >= 1
IsMonthText(p) == Len(p) \in {1, 2} /\ (\A i \in 1..Len(p) : IsDigit(p[i])) /\ ToNum(p) \in 1..12
IsDayText(p) ==
    \/ Len(p) \in {1, 2} /\ (\A i \in 1..Len(p) : IsDigit(p[i])) /\ ToNum(p) \in 1..31
    \/ Len(p) = 2 /\ p[1] = " " /\ IsDigit(p[2]) /\ p[2] # "0"
DayNum(p) == IF p[1] = " " THEN DigitVal(p[2]) ELSE ToNum(p)

NoDate == [k |-> "nodate"]

\* datetime.strptime(text, fmt) for the three formats of the code; NoDate when
\* it raises ValueError
StrPTime(text, fmt) ==
    LET sep == IF fmt = "%Y-%m-%d" THEN "-" ELSE "/"
        parts == SplitAll(text, sep)
        yt == IF fmt = "%Y-%m-%d" THEN parts[1] ELSE parts[3]
        mt == IF fmt = "%Y-%m-%d" THEN parts[2] ELSE IF fmt = "%m/%d/%Y" THEN parts[1] ELSE parts[2]
        dt == IF fmt = "%Y-%m-%d" THEN parts[3] ELSE IF fmt = "%m/%d/%Y" THEN parts[2] ELSE parts[1]
    IN  IF Len(parts) = 3 /\ IsYearText(yt) /\ IsMonthText(mt) /\ IsDayText(dt)
             /\ DayNum(dt) <= DaysIn(ToNum(yt), ToNum(mt))
        THEN DateTimeVal(ToNum(yt), ToNum(mt), DayNum(dt))
        ELSE NoDate

\* for fmt in ("%Y-%m-%d", "%m/%d/%Y", "%d/%m/%Y"): the first that parses
DateFormats == <<"%Y-%m-%d", "%m/%d/%Y", "%d/%m/%Y">>

FirstParse(text) ==
    LET ok == {n \in 1..Len(DateFormats) : StrPTime(text, DateFormats[n]) # NoDate}
    IN  IF ok = {} THEN NoDate ELSE StrPTime(text, DateFormats[Min(ok)])

\* rejects: the names whose update and Add both raise; readonly: the names
\* whose Value cannot be assigned
Doc(name, full, type, fault, propSet, props, rejects, dateStore) ==
    [Name |-> name, FullName |-> full, Type |-> type, fault |-> fault,
     propSet |-> propSet, props |-> props, rejects |-> rejects, dateStore |-> dateStore,
     readonly |-> {}]

DocPool ==
    { Doc(s_dft, x_s_dft, 3, FALSE, "named", <<[Name |-> Rev, Value |-> StrVal(one)]>>, {}, "native"),
      Doc(s_dft, y_s_dft, 3, FALSE, "keyed", <<>>, {}, "native"),
      Doc(S_DFT, y_S_DFT, 1, FALSE, "absent", <<>>, {}, "native"),
      Doc(b_par, x_b_par, 1, FALSE, "named", <<>>, {}, "native"),
      Doc(a_noext, Missing, 3, FALSE, "named", <<>>, {Rev}, "native"),
      Doc(Missing, Missing, 0, FALSE, "noprops", <<>>, {}, "native"),
      Doc(b_par, x_b_par, 1, TRUE, "named", <<>>, {}, "native") }

\* sequences of at most n distinct members of S
SeqsUpTo(S, n) ==
    UNION { { q \in [1..m -> S] : \A i, j \in 1..m : i # j => q[i] # q[j] } : m \in 0..n }

\* application.Documents: None, natively iterable, or native iteration raises
\* after k items (k = 0: the collection offers Count/Item only)
CollModes(n) ==
    { [kind |-> "none", k |-> 0], [kind |-> "native", k |-> 0] }
        \cup { [kind |-> "raises", k |-> k] : k \in 0..n }

\* the host as one value, as the engine's operations read it
Host ==
    [docs |-> docs, active |-> active, reachable |-> reachable, coll |-> coll,
     itemFails |-> itemFails]

\* the same without native iteration that raises midway
PlainModes == {c \in CollModes(0) : TRUE}

\* the hosts a run starts from: up to MaxDocs open documents out of pool; with
\* midway, native iteration may also raise after some items
HostInit(pool, midway) ==
    /\ reachable \in BOOLEAN
    /\ docs \in SeqsUpTo(pool, MaxDocs)
    /\ reachable = FALSE => docs = <<>>
    /\ active \in 0..Len(docs)
    /\ coll \in IF midway THEN CollModes(Len(docs)) ELSE PlainModes
    /\ itemFails \in SUBSET (1..Len(docs))
    /\ coll.kind # "raises" => itemFails = {}

(***************************************************************************)
(* _iter_documents / _iter_com_collection: the handles yielded, in order.  *)
(* Native iteration first; when it raises, Item(1..Count), an index whose  *)
(* Item raises being skipped.                                              *)
(***************************************************************************)
Range(lo, hi) == [i \in 1..(IF hi >= lo THEN hi - lo + 1 ELSE 0) |-> lo + i - 1]

\* the fallback as range(1, count): the last index is never visited
IterWithoutLastIndex(c, count, fails) ==
    IF c.kind = "none" THEN <<>>
    ELSE IF c.kind = "native" THEN Range(1, count)
    ELSE LET Ok(i) == i \notin fails
         IN  Range(1, c.k) \o SelectSeq(Range(1, count - 1), Ok)

_iter_com_collection(c, count, fails) ==
    IF c.kind = "none" THEN <<>>
    ELSE IF c.kind = "native" THEN Range(1, count)
    ELSE LET Ok(i) == i \notin fails
         IN  Range(1, c.k) \o SelectSeq(Range(1, count), Ok)

_iter_documents(h) == _iter_com_collection(h.coll, Len(h.docs), h.itemFails)

(***************************************************************************)
(* _resolve_document_type                                                  *)
(***************************************************************************)
par == <<".", "p", "a", "r">>
psm == <<".", "p", "s", "m">>
asm == <<".", "a", "s", "m">>
dft == <<".", "d", "f", "t">>

\* a classifier that consults the raw type table before the extension
ResolveByRawTypeFirst(raw_type, full_name, display_name) ==
    LET extension == Lower(SplitExt(IF Truthy(full_name) THEN full_name ELSE display_name))
    IN  IF raw_type = 1 THEN "Part"
        ELSE IF raw_type = 2 THEN "Assembly"
        ELSE IF raw_type = 3 THEN "Draft"
        ELSE IF extension \in {par, psm} THEN "Part"
        ELSE IF extension = asm THEN "Assembly"
        ELSE IF extension = dft THEN "Draft"
        ELSE "Unknown"

_resolve_document_type(raw_type, full_name, display_name) ==
    LET extension == Lower(SplitExt(IF Truthy(full_name) THEN full_name ELSE display_name))
    IN  IF extension \in {par, psm} THEN "Part"
        ELSE IF extension = asm THEN "Assembly"
        ELSE IF extension = dft THEN "Draft"
        ELSE IF raw_type = 1 THEN "Part"
        ELSE IF raw_type = 2 THEN "Assembly"
        ELSE IF raw_type = 3 THEN "Draft"
        ELSE "Unknown"

(***************************************************************************)
(* The session of one engine call: CoInitialize, the body inside try, and  *)
(* CoUninitialize in the finally clause.  A body is a record               *)
(*   raised : an exception leaves the body                                 *)
(*   ret    : the value returned (NoValue when raised)                     *)
(*   log    : the host and runtime calls made, in order                    *)
(*   active : ActiveDocument after the body                                *)
(*   docs   : the documents after the body                                 *)
(*   examined  : the handles whose fields the loop read, in order          *)
(*   selected  : the handle the loop selected, 0 when it selected none     *)
(*   activated : the handles Activate() was invoked on, in order           *)
(*   wrote     : the property writes applied, in order                     *)
(***************************************************************************)
NoValue == <<"<no value>">>

\* a session whose teardown is skipped when the body raises
SessionWithoutFinally(body) ==
    [body EXCEPT !.log = <<"CoInitialize">> \o body.log
                           \o (IF body.raised THEN <<>> ELSE <<"CoUninitialize">>)]

Session(body) ==
    [body EXCEPT !.log = <<"CoInitialize">> \o body.log \o <<"CoUninitialize">>]

Raise(h, log) ==
    [raised |-> TRUE, ret |-> NoValue, log |-> log \o <<"raise">>,
     active |-> h.active, docs |-> h.docs,
     examined |-> <<>>, selected |-> 0, activated |-> <<>>, wrote |-> <<>>]

Return(h, value, log) ==
    [raised |-> FALSE, ret |-> value, log |-> log \o <<"return">>,
     active |-> h.active, docs |-> h.docs,
     examined |-> <<>>, selected |-> 0, activated |-> <<>>, wrote |-> <<>>]

\* gc.collect() and pythoncom.CoFreeUnusedLibraries()
Reclaim == <<"gc.collect", "CoFreeUnusedLibraries">>

Repeat(e, n) == [i \in 1..n |-> e]

\* getattr(obj, attr, default): the default when the attribute is absent
GetAttr(value, default) == IF value = Missing THEN default ELSE value

(***************************************************************************)
(* get_open_documents                                                      *)
(***************************************************************************)
Untitled == <<"U", "n", "t", "i", "t", "l", "e", "d">>

DocumentInfo(name, full_name, document_type, is_active) ==
    [name |-> name, full_name |-> full_name, document_type |-> document_type,
     is_active |-> is_active]

\* the items of a list
Items(q) == {q[n] : n \in 1..Len(q)}

\* the sort key (not item.is_active, item.name.lower()), compared as tuples
KeyLess(a, b) ==
    \/ a.is_active /\ ~b.is_active
    \/ a.is_active = b.is_active /\ StrLess(Lower(a.name), Lower(b.name))

\* list.sort by a key: ascending, and stable (items whose keys are equal keep
\* their order), so the item at i lands behind the items that are less and the
\* equal ones before i
\* less is the set of the pairs <<a, b>> of items with key(a) < key(b)
StableSort(q, less) ==
    LET Rank(i) == Cardinality({j \in 1..Len(q) :
                       <<q[j], q[i]>> \in less \/ (<<q[i], q[j]>> \notin less /\ j < i)}) + 1
    IN  [p \in 1..Len(q) |-> q[CHOOSE i \in 1..Len(q) : Rank(i) = p]]

\* a sort by the same key that puts equal keys in reverse order
SortDocumentsUnstable(q) ==
    LET Rank(i) == Cardinality({j \in 1..Len(q) :
                       KeyLess(q[j], q[i]) \/ (~KeyLess(q[i], q[j]) /\ j > i)}) + 1
    IN  [p \in 1..Len(q) |-> q[CHOOSE i \in 1..Len(q) : Rank(i) = p]]

\* documents.sort(key=lambda item: (not item.is_active, item.name.lower()))
SortDocuments(q) ==
    StableSort(q, {pair \in Items(q) \X Items(q) : KeyLess(pair[1], pair[2])})

\* the is_active expression of the loop body
MarkedActive(active_name, active_full_name, name, full_name) ==
    \/ Truthy(active_full_name) /\ full_name = active_full_name
    \/ Truthy(active_name) /\ name = active_name

\* one pass of the loop body over the handle i
OpenDocumentInfo(h, i, active_name, active_full_name) ==
    LET name == GetAttr(h.docs[i].Name, Untitled)
        full_name == GetAttr(h.docs[i].FullName, name)
    IN  DocumentInfo(name, full_name,
                     _resolve_document_type(h.docs[i].Type, full_name, name),
                     MarkedActive(active_name, active_full_name, name, full_name))

\* getattr(active_document, "Name", None), getattr(active_document, "FullName", None)
ActiveName(h) == IF h.active = 0 THEN None ELSE GetAttr(h.docs[h.active].Name, None)
ActiveFullName(h) == IF h.active = 0 THEN None ELSE GetAttr(h.docs[h.active].FullName, None)

\* the list the loop builds, in iteration order
ListedDocuments(h) ==
    LET yielded == _iter_documents(h)
    IN  [j \in 1..Len(yielded) |->
            OpenDocumentInfo(h, yielded[j], ActiveName(h), ActiveFullName(h))]

\* a fallback entry that is not marked active
FallbackNotMarkedActive(h) ==
    LET fallback_name == GetAttr(h.docs[h.active].Name, Untitled)
        fallback_full_name == GetAttr(h.docs[h.active].FullName, fallback_name)
    IN  DocumentInfo(fallback_name, fallback_full_name,
                     _resolve_document_type(h.docs[h.active].Type,
                                            fallback_full_name, fallback_name),
                     FALSE)

\* the single entry made from ActiveDocument when the loop listed nothing
FallbackDocument(h) ==
    LET fallback_name == GetAttr(h.docs[h.active].Name, Untitled)
        fallback_full_name == GetAttr(h.docs[h.active].FullName, fallback_name)
    IN  DocumentInfo(fallback_name, fallback_full_name,
                     _resolve_document_type(h.docs[h.active].Type,
                                            fallback_full_name, fallback_name),
                     TRUE)

\* the list before documents.sort
UnsortedDocuments(h) ==
    IF ListedDocuments(h) = <<>> /\ h.active # 0
    THEN <<FallbackDocument(h)>>
    ELSE ListedDocuments(h)

get_open_documents_body(h) ==
    IF ~h.reachable THEN Raise(h, <<"GetActiveObject">>)
    ELSE IF h.active # 0 /\ h.docs[h.active].fault
    THEN Raise(h, <<"GetActiveObject", "ActiveDocument">>)
    ELSE
    LET yielded == _iter_documents(h)
        faulty == {j \in 1..Len(yielded) : h.docs[yielded[j]].fault}
        start == <<"GetActiveObject", "ActiveDocument">>
    IN  IF faulty # {}
        THEN [Raise(h, start \o Repeat("del document", Min(faulty)))
                EXCEPT !.examined = SubSeq(yielded, 1, Min(faulty))]
        ELSE [Return(h, [documents |-> SortDocuments(UnsortedDocuments(h)),
                         active_name |-> ActiveName(h)],
                     start \o Repeat("del document", Len(yielded))
                           \o <<"del active_document", "del application">> \o Reclaim)
                EXCEPT !.examined = yielded]

get_open_documents(h) == Session(get_open_documents_body(h))

(***************************************************************************)
(* Identity matching                                                       *)
(***************************************************************************)
\* _path_key(value); value is a string or None
_path_key(value) == IF ~Truthy(value) THEN EmptyStr ELSE Strip(NormCase(value))

\* str(target_name or "").strip().lower()
NameKey(value) == IF ~Truthy(value) THEN EmptyStr ELSE Lower(Strip(value))

\* matching that falls back to the name although a target path was given
MatchesWithNameFallback(wanted_full, wanted_name, full_name, name) ==
    LET matches_full == Truthy(wanted_full) /\ Truthy(full_name) /\ full_name = wanted_full
        matches_name == Truthy(wanted_name) /\ name = wanted_name
    IN  matches_full \/ matches_name

\* matches_full or matches_name, on the normalized keys
Matches(wanted_full, wanted_name, full_name, name) ==
    LET matches_full == Truthy(wanted_full) /\ Truthy(full_name) /\ full_name = wanted_full
        matches_name == ~Truthy(wanted_full) /\ Truthy(wanted_name) /\ name = wanted_name
    IN  matches_full \/ matches_name

\* the keys the loops compute for the handle i
DocFullKey(h, i) == _path_key(GetAttr(h.docs[i].FullName, EmptyStr))
DocNameKey(h, i) == Lower(Strip(GetAttr(h.docs[i].Name, EmptyStr)))
DocType(h, i) == _resolve_document_type(h.docs[i].Type, DocFullKey(h, i), DocNameKey(h, i))

FirstOf(S) == IF S = {} THEN 0 ELSE Min(S)

(***************************************************************************)
(* activate_document_by_full_name                                          *)
(***************************************************************************)
\* an activator that does not stop at the first match
ActivateEveryMatch(h, target_full_name, target_name) ==
    IF ~h.reachable THEN Raise(h, <<"GetActiveObject">>)
    ELSE
    LET yielded == _iter_documents(h)
        hits == {j \in 1..Len(yielded) :
                    Matches(_path_key(target_full_name), NameKey(target_name),
                            DocFullKey(h, yielded[j]), DocNameKey(h, yielded[j]))}
        IsHit(i) == \E j \in hits : yielded[j] = i
    IN  IF \E j \in 1..Len(yielded) : h.docs[yielded[j]].fault
        THEN Raise(h, <<"GetActiveObject">>)
        ELSE [Return(h, hits # {}, <<"GetActiveObject">> \o Reclaim)
                EXCEPT !.examined = yielded,
                       !.activated = SelectSeq(yielded, IsHit),
                       !.selected = IF hits = {} THEN 0 ELSE yielded[Min(hits)],
                       !.active = IF hits = {} THEN h.active ELSE yielded[Max(hits)]]

activate_document_by_full_name_body(h, target_full_name, target_name) ==
    IF ~h.reachable THEN Raise(h, <<"GetActiveObject">>)
    ELSE
    LET wanted_full == _path_key(target_full_name)
        wanted_name == NameKey(target_name)
        yielded == _iter_documents(h)
        \* the first pass that leaves the loop: a match, or a read that raises
        leaves == {j \in 1..Len(yielded) :
                     \/ h.docs[yielded[j]].fault
                     \/ Matches(wanted_full, wanted_name,
                                DocFullKey(h, yielded[j]), DocNameKey(h, yielded[j]))}
        j == FirstOf(leaves)
        start == <<"GetActiveObject">>
    IN  IF j = 0
        THEN [Return(h, FALSE, start \o Repeat("del document", Len(yielded))
                                     \o <<"del application">> \o Reclaim)
                EXCEPT !.examined = yielded]
        ELSE IF h.docs[yielded[j]].fault
        THEN [Raise(h, start \o Repeat("del document", j))
                EXCEPT !.examined = SubSeq(yielded, 1, j)]
        ELSE [Return(h, TRUE, start \o Repeat("del document", j - 1)
                                    \o <<"Activate", "del document", "del application">>
                                    \o Reclaim)
                EXCEPT !.active = yielded[j], !.activated = <<yielded[j]>>,
                       !.selected = yielded[j], !.examined = SubSeq(yielded, 1, j)]

activate_document_by_full_name(h, target_full_name, target_name) ==
    Session(activate_document_by_full_name_body(h, target_full_name, target_name))

(***************************************************************************)
(* get_active_document_name, disconnect_from_solid_edge                    *)
(***************************************************************************)
\* a name lookup that brings the first open document to the front
ActivateThenName(h) ==
    IF ~h.reachable \/ h.docs = <<>> THEN Raise(h, <<"GetActiveObject">>)
    ELSE [Return(h, h.docs[1].Name, <<"GetActiveObject", "Activate">> \o Reclaim)
            EXCEPT !.active = 1, !.activated = <<1>>]

get_active_document_name_body(h) ==
    IF ~h.reachable THEN Raise(h, <<"GetActiveObject">>)
    ELSE IF h.active = 0 \/ h.docs[h.active].fault \/ h.docs[h.active].Name = Missing
    THEN Raise(h, <<"GetActiveObject", "ActiveDocument">>)
    ELSE Return(h, h.docs[h.active].Name,
                <<"GetActiveObject", "ActiveDocument", "del document", "del application">>
                    \o Reclaim)

get_active_document_name(h) == Session(get_active_document_name_body(h))

disconnect_from_solid_edge_body(h) == Return(h, None, Reclaim)

disconnect_from_solid_edge(h) == Session(disconnect_from_solid_edge_body(h))

(***************************************************************************)
(* diagnose_solid_edge_connection                                          *)
(***************************************************************************)
diagnose_solid_edge_connection_body(h) ==
    IF ~h.reachable THEN Raise(h, <<"GetActiveObject">>)
    ELSE IF h.active # 0 /\ h.docs[h.active].fault
    THEN Raise(h, <<"GetActiveObject", "ActiveDocument">>)
    ELSE Return(h,
                [active_document |->
                     IF h.active = 0 THEN None ELSE GetAttr(h.docs[h.active].Name, None),
                 documents_count |-> IF h.coll.kind = "none" THEN -1 ELSE Len(h.docs),
                 visible |-> TRUE],
                <<"GetActiveObject", "ActiveDocument", "del active_document",
                  "del application">> \o Reclaim)

diagnose_solid_edge_connection(h) == Session(diagnose_solid_edge_connection_body(h))

(***************************************************************************)
(* The custom property reader                                              *)
(***************************************************************************)
\* _infer_custom_property_type
_infer_custom_property_type(value) ==
    IF value.k = "bool" THEN "Boolean"
    ELSE IF value.k = "num" THEN "Number"
    ELSE IF value.k = "datetime" THEN "Date"
    ELSE LET text == StrOrEmptyStripped(value)
         IN  IF text # <<>> /\ FirstParse(Before(text, "T")) # NoDate THEN "Date" ELSE "Text"

\* _serialize_date_value
_serialize_date_value(value) ==
    IF value.k = "datetime"
    THEN StrVal(Digits(value.y, 4) \o <<"-">> \o Digits(value.m, 2) \o <<"-">>
                    \o Digits(value.d, 2))
    ELSE LET text == StrOrEmptyStripped(value)
         IN  StrVal(Before(Before(text, " "), "T"))

\* the custom set of a document, as both _read_document_custom_properties and
\* _get_custom_property_set look for it: a set whose name contains "custom",
\* else Properties.Item("Custom"); FALSE when there is none
\* a lookup that finds a custom set in every Properties collection
HasProperties(d) == d.propSet # "noprops"

HasCustomSet(d) == d.propSet \in {"named", "keyed"}

PropLess(a, b) == StrLess(Lower(a.name), Lower(b.name))

\* _read_document_custom_properties
_read_document_custom_properties(d) ==
    IF ~HasCustomSet(d) THEN <<>>
    ELSE
    LET Named(p) == Strip(p.Name) # <<>>
        kept == SelectSeq(d.props, Named)
        Entry(p) ==
            LET prop_type == _infer_custom_property_type(p.Value)
                normalized_value == IF p.Value.k = "none" THEN StrVal(<<>>) ELSE p.Value
            IN  [name |-> Strip(p.Name), type |-> prop_type,
                 value |-> IF prop_type = "Date" THEN _serialize_date_value(normalized_value)
                           ELSE normalized_value]
        custom_props == [n \in 1..Len(kept) |-> Entry(kept[n])]
    IN  StableSort(custom_props,
                   {pair \in Items(custom_props) \X Items(custom_props) :
                        PropLess(pair[1], pair[2])})

(***************************************************************************)
(* get_draft_custom_properties                                             *)
(***************************************************************************)
\* a reader that does not look at the document's type
ReadWhateverMatches(h, target_full_name, target_name) ==
    IF ~h.reachable THEN Raise(h, <<"GetActiveObject">>)
    ELSE
    LET yielded == _iter_documents(h)
        leaves == {j \in 1..Len(yielded) :
                     Matches(_path_key(target_full_name), NameKey(target_name),
                             DocFullKey(h, yielded[j]), DocNameKey(h, yielded[j]))}
        j == FirstOf(leaves)
    IN  IF j = 0 THEN [Return(h, <<>>, <<"GetActiveObject">>) EXCEPT !.examined = yielded]
        ELSE [Return(h, _read_document_custom_properties(h.docs[yielded[j]]),
                     <<"GetActiveObject", "Properties">>)
                EXCEPT !.selected = yielded[j], !.examined = SubSeq(yielded, 1, j)]

get_draft_custom_properties_body(h, target_full_name, target_name) ==
    IF ~h.reachable THEN Raise(h, <<"GetActiveObject">>)
    ELSE
    LET wanted_full == _path_key(target_full_name)
        wanted_name == NameKey(target_name)
        yielded == _iter_documents(h)
        leaves == {j \in 1..Len(yielded) :
                     \/ h.docs[yielded[j]].fault
                     \/ /\ DocType(h, yielded[j]) = "Draft"
                        /\ Matches(wanted_full, wanted_name,
                                   DocFullKey(h, yielded[j]), DocNameKey(h, yielded[j]))}
        j == FirstOf(leaves)
        start == <<"GetActiveObject">>
    IN  IF j = 0
        THEN [Return(h, <<>>, start \o Repeat("del document", Len(yielded))
                                    \o <<"del application">> \o Reclaim)
                EXCEPT !.examined = yielded]
        ELSE IF h.docs[yielded[j]].fault
        THEN [Raise(h, start \o Repeat("del document", j))
                EXCEPT !.examined = SubSeq(yielded, 1, j)]
        ELSE [Return(h, _read_document_custom_properties(h.docs[yielded[j]]),
                     start \o Repeat("del document", j - 1)
                           \o <<"Properties", "del document", "del application">> \o Reclaim)
                EXCEPT !.selected = yielded[j], !.examined = SubSeq(yielded, 1, j)]

get_draft_custom_properties(h, target_full_name, target_name) ==
    Session(get_draft_custom_properties_body(h, target_full_name, target_name))

(***************************************************************************)
(* The custom property writer                                              *)
(***************************************************************************)
TruthyTokens == { <<"1">>, <<"t", "r", "u", "e">>, <<"y", "e", "s">>, <<"y">>, <<"o", "n">> }

\* float(raw_value), 0.0 when it raises; the strings of the model are digit
\* strings or hold no number
FloatOrZero(raw_value) ==
    CASE raw_value.k = "num" -> raw_value.n
      [] raw_value.k = "bool" -> IF raw_value.v THEN 1 ELSE 0
      [] raw_value.k = "str" ->
            LET text == Strip(raw_value.s)
            IN  IF text # <<>> /\ \A i \in 1..Len(text) : IsDigit(text[i])
                THEN ToNum(text) ELSE 0
      [] OTHER -> 0

\* _coerce_custom_property_value
_coerce_custom_property_value(raw_value, prop_type) ==
    IF prop_type = "Boolean"
    THEN IF raw_value.k = "bool" THEN raw_value
         ELSE BoolVal(Lower(StrOrEmptyStripped(raw_value)) \in TruthyTokens)
    ELSE IF prop_type = "Number" THEN NumVal(FloatOrZero(raw_value))
    ELSE IF prop_type = "Date"
    THEN IF raw_value.k = "datetime" THEN raw_value
         ELSE LET text == StrOrEmptyStripped(raw_value)
              IN  IF text = <<>> THEN StrVal(<<>>)
                  ELSE IF FirstParse(text) # NoDate THEN FirstParse(text)
                  ELSE StrVal(text)
    ELSE IF raw_value.k = "none" THEN StrVal(<<>>) ELSE StrVal(Str(raw_value))

\* what the host holds after it was given typed_value: a date-time is kept
\* natively or as text in one of the date patterns
Stored(d, typed_value) ==
    IF typed_value.k # "datetime" \/ d.dateStore = "native" THEN typed_value
    ELSE LET y == Digits(typed_value.y, 4)
             m == Digits(typed_value.m, 2)
             dd == Digits(typed_value.d, 2)
         IN  CASE d.dateStore = "%Y-%m-%d" -> StrVal(y \o <<"-">> \o m \o <<"-">> \o dd)
               [] d.dateStore = "%m/%d/%Y" -> StrVal(m \o <<"/">> \o dd \o <<"/">> \o y)
               [] d.dateStore = "%d/%m/%Y" -> StrVal(dd \o <<"/">> \o m \o <<"/">> \o y)

\* one entry of the loop: custom_set.Item(clean_key).Value = typed_value, and
\* custom_set.Add(clean_key, typed_value) when Item or the assignment raises
ApplyEntry(d, props, entry) ==
    LET clean_key == Strip(entry.name)
        typed_value == _coerce_custom_property_value(entry.value, entry.type)
        found == {n \in 1..Len(props) : props[n].Name = clean_key}
    IN  IF found # {} /\ clean_key \notin d.readonly
        THEN [props EXCEPT ![Min(found)].Value = Stored(d, typed_value)]
        ELSE Append(props, [Name |-> clean_key, Value |-> Stored(d, typed_value)])

\* a loop that undoes what it applied when an entry raises
RECURSIVE ApplyAllOrNothing(_, _, _)
ApplyAllOrNothing(d, i, entries) ==
    IF entries = <<>> THEN [props |-> d.props, wrote |-> <<>>, raised |-> FALSE]
    ELSE
    LET before == ApplyAllOrNothing(d, i, SubSeq(entries, 1, Len(entries) - 1))
        entry == entries[Len(entries)]
        clean_key == Strip(entry.name)
    IN  IF before.raised \/ clean_key = <<>> THEN before
        ELSE IF clean_key \in d.rejects
        THEN [props |-> d.props, wrote |-> <<>>, raised |-> TRUE]
        ELSE [before EXCEPT !.props = ApplyEntry(d, before.props, entry),
                            !.wrote = Append(before.wrote, [doc |-> i, name |-> clean_key])]

\* the loop over custom_properties on document d: the properties after it,
\* the writes applied, and whether an entry raised (the loop stops there)
RECURSIVE ApplyEntries(_, _, _)
ApplyEntries(d, i, entries) ==
    IF entries = <<>> THEN [props |-> d.props, wrote |-> <<>>, raised |-> FALSE]
    ELSE
    LET before == ApplyEntries(d, i, SubSeq(entries, 1, Len(entries) - 1))
        entry == entries[Len(entries)]
        clean_key == Strip(entry.name)
    IN  IF before.raised \/ clean_key = <<>> THEN before
        ELSE IF clean_key \in d.rejects THEN [before EXCEPT !.raised = TRUE]
        ELSE [before EXCEPT !.props = ApplyEntry(d, before.props, entry),
                            !.wrote = Append(before.wrote, [doc |-> i, name |-> clean_key])]

\* the is_active expression of the writer's loop, on the normalized keys
WriterIsActive(active_full_name, active_name, full_name, name) ==
    \/ Truthy(active_full_name) /\ full_name = active_full_name
    \/ Truthy(active_name) /\ name = active_name

\* a writer that does not look at the document's type
WriteWhateverMatches(h, target_full_name, target_name, custom_properties) ==
    IF ~h.reachable THEN Raise(h, <<"GetActiveObject">>)
    ELSE
    LET active_full_name == IF h.active = 0 THEN EmptyStr ELSE DocFullKey(h, h.active)
        active_name == IF h.active = 0 THEN EmptyStr ELSE DocNameKey(h, h.active)
        yielded == _iter_documents(h)
        leaves == {j \in 1..Len(yielded) :
                     /\ Matches(_path_key(target_full_name), NameKey(target_name),
                                DocFullKey(h, yielded[j]), DocNameKey(h, yielded[j]))
                     /\ WriterIsActive(active_full_name, active_name,
                                       DocFullKey(h, yielded[j]), DocNameKey(h, yielded[j]))}
        j == FirstOf(leaves)
    IN  IF j = 0 \/ ~HasCustomSet(h.docs[yielded[Max({j, 1})]])
        THEN Return(h, FALSE, <<"GetActiveObject", "ActiveDocument">>)
        ELSE
        LET applied == ApplyEntries(h.docs[yielded[j]], yielded[j], custom_properties)
        IN  [Return(h, ~applied.raised, <<"GetActiveObject", "ActiveDocument", "Properties">>)
                EXCEPT !.docs = [h.docs EXCEPT ![yielded[j]].props = applied.props],
                       !.wrote = applied.wrote, !.selected = yielded[j]]

set_active_draft_custom_properties_body(h, target_full_name, target_name, custom_properties) ==
    IF ~h.reachable THEN Raise(h, <<"GetActiveObject">>)
    ELSE IF h.active # 0 /\ h.docs[h.active].fault
    THEN Raise(h, <<"GetActiveObject", "ActiveDocument">>)
    ELSE
    LET active_full_name == IF h.active = 0 THEN EmptyStr ELSE DocFullKey(h, h.active)
        active_name == IF h.active = 0 THEN EmptyStr ELSE DocNameKey(h, h.active)
        wanted_full == _path_key(target_full_name)
        wanted_name == NameKey(target_name)
        yielded == _iter_documents(h)
        leaves == {j \in 1..Len(yielded) :
                     \/ h.docs[yielded[j]].fault
                     \/ /\ DocType(h, yielded[j]) = "Draft"
                        /\ Matches(wanted_full, wanted_name,
                                   DocFullKey(h, yielded[j]), DocNameKey(h, yielded[j]))
                        /\ WriterIsActive(active_full_name, active_name,
                                          DocFullKey(h, yielded[j]), DocNameKey(h, yielded[j]))}
        j == FirstOf(leaves)
        start == <<"GetActiveObject", "ActiveDocument">>
    IN  IF j = 0
        THEN [Return(h, FALSE, start \o Repeat("del document", Len(yielded))
                                     \o <<"del active_document", "del application">>
                                     \o Reclaim)
                EXCEPT !.examined = yielded]
        ELSE IF h.docs[yielded[j]].fault
        THEN [Raise(h, start \o Repeat("del document", j))
                EXCEPT !.examined = SubSeq(yielded, 1, j)]
        ELSE IF ~HasCustomSet(h.docs[yielded[j]])
        THEN [Return(h, FALSE, start \o Repeat("del document", j - 1)
                                     \o <<"Properties", "del document">>)
                EXCEPT !.selected = yielded[j], !.examined = SubSeq(yielded, 1, j)]
        ELSE
        LET applied == ApplyEntries(h.docs[yielded[j]], yielded[j], custom_properties)
            after == [h.docs EXCEPT ![yielded[j]].props = applied.props]
            upto == start \o Repeat("del document", j - 1) \o <<"Properties">>
                          \o Repeat("write", Len(applied.wrote))
        IN  IF applied.raised
            THEN [Raise(h, upto \o <<"del document">>)
                    EXCEPT !.docs = after, !.wrote = applied.wrote,
                           !.selected = yielded[j], !.examined = SubSeq(yielded, 1, j)]
            ELSE [Return(h, TRUE, upto \o <<"del document", "del active_document",
                                            "del application">> \o Reclaim)
                    EXCEPT !.docs = after, !.wrote = applied.wrote,
                           !.selected = yielded[j], !.examined = SubSeq(yielded, 1, j)]

set_active_draft_custom_properties(h, target_full_name, target_name, custom_properties) ==
    Session(set_active_draft_custom_properties_body(h, target_full_name, target_name,
                                                    custom_properties))

(***************************************************************************)
(* The engine's public operations as actions.  An action runs one call to  *)
(* its end against the host and records it in `call`, with the host as it  *)
(* was when the call began.                                                *)
(***************************************************************************)
NoCall == [op |-> "none"]

Count(log, e) == Cardinality({n \in 1..Len(log) : log[n] = e})

Record(op, args, out) ==
    /\ call' = [op |-> op, args |-> args, before |-> Host, raised |-> out.raised,
                ret |-> out.ret, log |-> out.log, examined |-> out.examined,
                selected |-> out.selected,
                activated |-> out.activated, wrote |-> out.wrote]
    /\ comDepth' = comDepth + Count(out.log, "CoInitialize") - Count(out.log, "CoUninitialize")
    /\ active' = out.active
    /\ docs' = out.docs
    /\ UNCHANGED <<reachable, coll, itemFails>>

\* the identities a caller asks for
TargetFullNames == {None, blank, y_s_dft, X_S_DFT}
TargetNames == {None, S_DFT}

\* the property lists a caller writes
d2024_03_01 == <<"2", "0", "2", "4", "-", "0", "3", "-", "0", "1">>
EntryPool ==
    { [name |-> Rev, type |-> "Date", value |-> StrVal(d2024_03_01)],
      [name |-> <<"o", "n">>, type |-> "Boolean", value |-> StrVal(<<"Y", "e", "s">>)],
      [name |-> blank, type |-> "Number", value |-> StrVal(one)] }
PropertyLists == SeqsUpTo(EntryPool, MaxEntries)

GetOpenDocuments ==
    /\ Record("get_open_documents", <<>>, get_open_documents(Host))
    /\ UNCHANGED uiVars

ActivateDocument ==
    \E tf \in TargetFullNames, tn \in TargetNames :
        /\ Record("activate_document_by_full_name", <<tf, tn>>,
                  activate_document_by_full_name(Host, tf, tn))
        /\ UNCHANGED uiVars

GetActiveDocumentName ==
    /\ Record("get_active_document_name", <<>>, get_active_document_name(Host))
    /\ UNCHANGED uiVars

Disconnect ==
    /\ Record("disconnect_from_solid_edge", <<>>, disconnect_from_solid_edge(Host))
    /\ UNCHANGED uiVars

GetDraftCustomProperties ==
    \E tf \in TargetFullNames, tn \in TargetNames :
        /\ Record("get_draft_custom_properties", <<tf, tn>>,
                  get_draft_custom_properties(Host, tf, tn))
        /\ UNCHANGED uiVars

SetActiveDraftCustomProperties ==
    \E tf \in TargetFullNames, tn \in TargetNames, cp \in PropertyLists :
        /\ Record("set_active_draft_custom_properties", <<tf, tn, cp>>,
                  set_active_draft_custom_properties(Host, tf, tn, cp))
        /\ UNCHANGED uiVars

Diagnose ==
    /\ Record("diagnose_solid_edge_connection", <<>>, diagnose_solid_edge_connection(Host))
    /\ UNCHANGED uiVars

(***************************************************************************)
(* SolidEdgeWorker: what run() does for its action, against host h.  The   *)
(* result is the payload of the finished signal and ActiveDocument after   *)
(* the run.  A message is a tuple: its text, then what is formatted in.    *)
(***************************************************************************)
WorkerPayload(ok, message, documents, active_name) ==
    [ok |-> ok, message |-> message, documents |-> documents, active_name |-> active_name]

\* the payload of the two property actions: custom_properties and
\* selection_key besides
PropertiesPayload(ok, message, custom_properties, selection_key) ==
    [ok |-> ok, message |-> message, documents |-> <<>>, active_name |-> None,
     custom_properties |-> custom_properties, selection_key |-> selection_key]

\* what a handler did: the finished signals it emitted, whether an
\* exception left it, the host's ActiveDocument and documents after it, and
\* the logs of the engine calls it made, in order
Emitted(action, payload, activeAfter, docsAfter, log) ==
    [emitted |-> <<[action |-> action, payload |-> payload]>>, escaped |-> FALSE,
     active |-> activeAfter, docs |-> docsAfter, log |-> log]

\* a connect that reports a host it could not reach as connected and empty
ConnectReportsEmpty(h, action) ==
    LET listed == get_open_documents(h)
    IN  Emitted(action,
                WorkerPayload(TRUE, <<"Connected, but no open documents were found.">>,
                              IF listed.raised THEN <<>> ELSE listed.ret.documents,
                              IF listed.raised THEN None ELSE listed.ret.active_name),
                h.active, h.docs, listed.log)

_handle_connect_or_refresh(h, action) ==
    LET listed == get_open_documents(h)
        diagnosed == diagnose_solid_edge_connection(h)
        diagnostic_message ==
            IF diagnosed.raised THEN <<>>
            ELSE << IF Truthy(diagnosed.ret.active_document)
                    THEN diagnosed.ret.active_document ELSE None,
                    diagnosed.ret.documents_count, diagnosed.ret.visible >>
    IN  IF ~listed.raised
        THEN Emitted(action,
                     WorkerPayload(TRUE,
                         IF listed.ret.documents # <<>>
                         THEN <<"Loaded open document(s).", Len(listed.ret.documents)>>
                         ELSE <<"Connected, but no open documents were found.">>,
                         listed.ret.documents, listed.ret.active_name),
                     h.active, h.docs, listed.log)
        ELSE Emitted(action,
                     WorkerPayload(FALSE,
                         <<"Error: Solid Edge must be open with at least one active document.">>
                             \o diagnostic_message,
                         <<>>, None),
                     h.active, h.docs, listed.log \o diagnosed.log)

\* the signal of _handle_disconnect once its engine call has returned or
\* raised
DisconnectEmitted(h, disconnected) ==
    IF ~disconnected.raised
    THEN Emitted("disconnect", WorkerPayload(TRUE, <<"Disconnected.">>, <<>>, None),
                 h.active, h.docs, disconnected.log)
    ELSE Emitted("disconnect",
                 WorkerPayload(FALSE, <<"Error: Failed to disconnect from Solid Edge.">>,
                               <<>>, None),
                 h.active, h.docs, disconnected.log)

_handle_disconnect(h) == DisconnectEmitted(h, disconnect_from_solid_edge(h))

\* the signal of _handle_activate: activated is the activation call, listed
\* the enumeration that follows it when it returned True
ActivateEmitted(h, activated, listed) ==
    IF activated.raised
    THEN Emitted("activate",
                 WorkerPayload(FALSE, <<"Error: Failed to activate document.">>, <<>>, None),
                 h.active, h.docs, activated.log)
    ELSE IF ~activated.ret
    THEN Emitted("activate",
                 WorkerPayload(FALSE, <<"Error: Could not activate the selected document.">>,
                               <<>>, None),
                 h.active, h.docs, activated.log)
    ELSE IF listed.raised
    THEN Emitted("activate",
                 WorkerPayload(FALSE, <<"Error: Failed to activate document.">>, <<>>, None),
                 activated.active, h.docs, activated.log \o listed.log)
    ELSE Emitted("activate",
                 WorkerPayload(TRUE, <<"Selected document activated in Solid Edge.">>,
                               listed.ret.documents, listed.ret.active_name),
                 activated.active, h.docs, activated.log \o listed.log)

_handle_activate(h, payload) ==
    ActivateEmitted(h,
        activate_document_by_full_name(h, payload.full_name, payload.name),
        get_open_documents(
            [h EXCEPT !.active =
                activate_document_by_full_name(h, payload.full_name, payload.name).active]))

\* the signal of _handle_draft_custom_properties once its engine call, read,
\* has returned or raised
DraftPropertiesEmitted(h, payload, read) ==
    IF ~read.raised
    THEN Emitted("draft_custom_properties",
                 PropertiesPayload(TRUE, <<"Loaded draft custom properties.">>,
                                   read.ret, payload.selection_key),
                 h.active, h.docs, read.log)
    ELSE Emitted("draft_custom_properties",
                 PropertiesPayload(FALSE, <<"Failed to load draft custom properties.">>,
                                   <<>>, payload.selection_key),
                 h.active, h.docs, read.log)

_handle_draft_custom_properties(h, payload) ==
    DraftPropertiesEmitted(h, payload,
        get_draft_custom_properties(h, payload.full_name, payload.name))

SavedOk(saved) ==
    Emitted("save_draft_custom_properties",
            WorkerPayload(~saved.raised, <<"Draft custom properties saved.">>, <<>>, None),
            saved.active, saved.docs, saved.log)

SaveReportsOk(h, payload) ==
    SavedOk(set_active_draft_custom_properties(h, payload.full_name, payload.name,
                                               payload.custom_properties))

\* the signal of _handle_save_draft_custom_properties once its engine call,
\* saved, has returned or raised
SaveEmitted(saved) ==
    IF ~saved.raised
    THEN Emitted("save_draft_custom_properties",
                 WorkerPayload(saved.ret,
                     IF saved.ret THEN <<"Draft custom properties saved.">>
                     ELSE <<"Draft must be active to save custom properties.">>,
                     <<>>, None),
                 saved.active, saved.docs, saved.log)
    ELSE Emitted("save_draft_custom_properties",
                 WorkerPayload(FALSE, <<"Failed to save draft custom properties.">>,
                               <<>>, None),
                 saved.active, saved.docs, saved.log)

_handle_save_draft_custom_properties(h, payload) ==
    SaveEmitted(set_active_draft_custom_properties(h, payload.full_name, payload.name,
                                                   payload.custom_properties))

\* an action run() does not know: it returns without emitting
run(h, worker) ==
    IF worker.action \in {"connect", "refresh"}
    THEN _handle_connect_or_refresh(h, worker.action)
    ELSE IF worker.action = "disconnect" THEN _handle_disconnect(h)
    ELSE IF worker.action = "activate" THEN _handle_activate(h, worker.payload)
    ELSE IF worker.action = "draft_custom_properties"
    THEN _handle_draft_custom_properties(h, worker.payload)
    ELSE IF worker.action = "save_draft_custom_properties"
    THEN _handle_save_draft_custom_properties(h, worker.payload)
    ELSE [emitted |-> <<>>, escaped |-> FALSE, active |-> h.active, docs |-> h.docs,
          log |-> <<>>]

(***************************************************************************)
(* ModernCADApp: its fields, the enabled flags of its controls, the page   *)
(* its workspace shows, the startup timer, the finished signals queued for *)
(* the UI thread, and how far closing the window has come.                 *)
(***************************************************************************)
MaxWorkers == 2

\* Optional[DocumentInfo]: <<>> for None, <<document>> for a document
NoDocument == <<>>

NoPayload == [full_name |-> None, name |-> None]

ModernCADApp ==
    [ _connected |-> FALSE, _documents |-> <<>>, _selected_document |-> NoDocument,
      _selection_key |-> None, _preferred_selection_key |-> None,
      _status_message |-> <<"ready", <<"Ready">>>>,
      items |-> <<>>, page |-> "empty",
      connect_btn |-> TRUE, refresh_btn |-> FALSE, disconnect_btn |-> FALSE,
      doc_list |-> FALSE, action_buttons |-> TRUE,
      timer |-> TRUE, signals |-> <<>>, window |-> "open" ]

UIIdle ==
    /\ ui = ModernCADApp
    /\ workers = <<>>

_set_status(u, state, message) == [u EXCEPT !._status_message = <<state, message>>]

\* DocumentInfo.selection_key
selection_key(document) ==
    Lower(Strip(document.full_name)) \o <<"|">> \o Lower(Strip(document.name))

_build_document_key(document) ==
    IF document = NoDocument THEN None ELSE selection_key(document[1])

\* the first row whose document has the key, 0 when there is none
_find_row_by_key(items, key) ==
    IF ~Truthy(key) THEN 0
    ELSE FirstOf({row \in 1..Len(items) : _build_document_key(<<items[row]>>) = key})

\* the list's current item changed to the document at row
_on_document_changed(u, row) ==
    [u EXCEPT !._selected_document = <<u.items[row]>>,
              !._selection_key = _build_document_key(<<u.items[row]>>),
              !.page = "document"]

_populate_document_list(u, documents) ==
    LET previous_key == u._selection_key
        preferred_row == _find_row_by_key(documents, u._preferred_selection_key)
        previous_row == _find_row_by_key(documents, previous_key)
        active_row == FirstOf({row \in 1..Len(documents) : documents[row].is_active})
        selected_row == IF preferred_row # 0 THEN preferred_row
                        ELSE IF previous_row # 0 THEN previous_row
                        ELSE IF active_row # 0 THEN active_row
                        ELSE 1
        filled == [u EXCEPT !.items = documents]
    IN  IF documents = <<>>
        THEN [filled EXCEPT !._selected_document = NoDocument, !._selection_key = None,
                            !._preferred_selection_key = None, !.page = "empty"]
        ELSE [_on_document_changed(filled, selected_row)
                 EXCEPT !._preferred_selection_key = None]

\* a handler that empties the window after any failure
FinishedClearsOnFailure(u, action, payload) ==
    LET handled ==
            IF payload.ok /\ action \in {"connect", "refresh", "activate"}
            THEN _populate_document_list(
                     [u EXCEPT !._connected = TRUE, !._documents = payload.documents],
                     payload.documents)
            ELSE [u EXCEPT !._connected = FALSE, !._documents = <<>>,
                           !._selected_document = NoDocument, !._selection_key = None,
                           !._preferred_selection_key = None,
                           !.items = <<>>, !.page = "empty"]
        shown == _set_status(handled, IF payload.ok THEN "success" ELSE "error",
                             payload.message)
    IN  [shown EXCEPT
            !.connect_btn = ~shown._connected,
            !.refresh_btn = shown._connected,
            !.disconnect_btn = shown._connected,
            !.doc_list = shown._connected /\ shown._documents # <<>>,
            !.action_buttons = shown._connected /\ shown._selected_document # NoDocument]

\* a handler that updates the fields and the status and leaves the controls
\* as _start_worker set them
FinishedLeavesControls(u, action, payload) ==
    LET handled ==
            IF action \in {"connect", "refresh", "activate"}
            THEN IF payload.ok
                 THEN _populate_document_list(
                          [u EXCEPT !._connected = TRUE, !._documents = payload.documents],
                          payload.documents)
                 ELSE IF action = "connect"
                 THEN [u EXCEPT !._connected = FALSE, !._documents = <<>>,
                                !.items = <<>>, !.page = "empty"]
                 ELSE u
            ELSE IF action = "disconnect" /\ payload.ok
            THEN [u EXCEPT !._connected = FALSE, !._documents = <<>>,
                           !._selected_document = NoDocument, !._selection_key = None,
                           !._preferred_selection_key = None,
                           !.items = <<>>, !.page = "empty"]
            ELSE u
    IN  _set_status(handled, IF payload.ok THEN "success" ELSE "error", payload.message)

_on_worker_finished(u, action, payload) ==
    LET is_success == payload.ok
        handled ==
            IF action \in {"connect", "refresh", "activate"}
            THEN IF is_success
                 THEN _populate_document_list(
                          [u EXCEPT !._connected = TRUE, !._documents = payload.documents],
                          payload.documents)
                 ELSE IF action = "connect"
                 THEN [u EXCEPT !._connected = FALSE, !._documents = <<>>,
                                !.items = <<>>, !.page = "empty"]
                 ELSE u
            ELSE IF action = "disconnect" /\ is_success
            THEN [u EXCEPT !._connected = FALSE, !._documents = <<>>,
                           !._selected_document = NoDocument, !._selection_key = None,
                           !._preferred_selection_key = None,
                           !.items = <<>>, !.page = "empty"]
            ELSE u
        shown == _set_status(handled, IF is_success THEN "success" ELSE "error", payload.message)
    IN  [shown EXCEPT
            !.connect_btn = ~shown._connected,
            !.refresh_btn = shown._connected,
            !.disconnect_btn = shown._connected,
            !.doc_list = shown._connected /\ shown._documents # <<>>,
            !.action_buttons = shown._connected /\ shown._selected_document # NoDocument]

\* the worker threads that are running, in the order they were started;
\* current marks the one self.worker refers to
_start_worker(u, action, payload) ==
    /\ Len(workers) + Len(u.signals) < MaxWorkers
    /\ ui' = [u EXCEPT !.connect_btn = FALSE, !.refresh_btn = FALSE,
                       !.disconnect_btn = FALSE, !.doc_list = FALSE]
    /\ workers' = [i \in 1..Len(workers) |-> [workers[i] EXCEPT !.current = FALSE]]
                      \o <<[action |-> action, payload |-> payload, current |-> TRUE]>>
    /\ UNCHANGED <<hostVars, comDepth, call>>

connect_task ==
    _start_worker(_set_status(ui, "processing", <<"Connecting and loading documents...">>),
                  "connect", NoPayload)

refresh_task ==
    _start_worker(_set_status(ui, "processing", <<"Refreshing document list...">>),
                  "refresh", NoPayload)

disconnect_task ==
    _start_worker(_set_status(ui, "processing", <<"Disconnecting...">>),
                  "disconnect", NoPayload)

_activate_selected_document ==
    IF ui._selected_document = NoDocument
    THEN /\ ui' = _set_status(ui, "error", <<"No document selected for activation.">>)
         /\ UNCHANGED <<hostVars, comDepth, call, workers>>
    ELSE _start_worker(
             [_set_status(ui, "processing", <<"Activating document in Solid Edge...">>)
                 EXCEPT !._preferred_selection_key = _build_document_key(ui._selected_document)],
             "activate",
             [full_name |-> ui._selected_document[1].full_name,
              name |-> ui._selected_document[1].name])

\* QTimer.singleShot(120, self.connect_task) fires
TimerFires ==
    /\ ui.window = "open"
    /\ ui.timer
    /\ _start_worker([_set_status(ui, "processing", <<"Connecting and loading documents...">>)
                         EXCEPT !.timer = FALSE],
                     "connect", NoPayload)

ClickConnect == ui.window = "open" /\ ui.connect_btn /\ connect_task

ClickRefresh == ui.window = "open" /\ ui.refresh_btn /\ refresh_task

ClickDisconnect == ui.window = "open" /\ ui.disconnect_btn /\ disconnect_task

\* the 'activate' action button of the page that is shown
ClickActivate ==
    /\ ui.window = "open"
    /\ ui.page = "document"
    /\ ui.action_buttons
    /\ _activate_selected_document

\* the user picks another row of the document list
SelectDocument ==
    /\ ui.window = "open"
    /\ ui.doc_list
    /\ \E row \in 1..Len(ui.items) :
          /\ <<ui.items[row]>> # ui._selected_document
          /\ ui' = _on_document_changed(ui, row)
    /\ UNCHANGED <<hostVars, comDepth, call, workers>>

\* a worker thread runs to its end and emits finished(action, payload)
WorkerRan(i, done) ==
    /\ workers' = [j \in 1..(Len(workers) - 1) |->
                      IF j < i THEN workers[j] ELSE workers[j + 1]]
    /\ ui' = [ui EXCEPT !.signals = @ \o done.emitted]
    /\ active' = done.active
    /\ docs' = done.docs
    /\ UNCHANGED <<reachable, coll, itemFails, comDepth, call>>

WorkerRuns ==
    \E i \in 1..Len(workers) : WorkerRan(i, run(Host, workers[i]))

\* the UI thread handles the oldest queued finished signal
WorkerFinished ==
    /\ ui.window = "open"
    /\ ui.signals # <<>>
    /\ ui' = [_on_worker_finished(ui, Head(ui.signals).action, Head(ui.signals).payload)
                 EXCEPT !.signals = Tail(ui.signals)]
    /\ UNCHANGED <<hostVars, comDepth, call, workers>>

\* closeEvent: worker.wait(2000) returns, because the worker ended or because
\* the two seconds passed, and disconnect_from_solid_edge() begins on the UI
\* thread
CloseEventWaits ==
    /\ ui.window = "open"
    /\ ui' = [ui EXCEPT !.window = "disconnecting"]
    /\ UNCHANGED <<hostVars, comDepth, call, workers>>

\* closeEvent: disconnect_from_solid_edge() returns and the window closes
CloseEventDisconnects ==
    /\ ui.window = "disconnecting"
    /\ ui' = [ui EXCEPT !.window = "closed"]
    /\ active' = disconnect_from_solid_edge(Host).active
    /\ UNCHANGED <<docs, reachable, coll, itemFails, comDepth, call, workers>>

InitFrom(pool, midway) ==
    /\ HostInit(pool, midway)
    /\ comDepth = 0
    /\ call = NoCall
    /\ UIIdle

\* the documents of the runs that call every operation: two drafts that share
\* a display name, a draft without a custom property set, a document whose
\* Name cannot be read
SessionPool == {d \in DocPool : d.FullName \in {x_s_dft, y_s_dft, y_S_DFT} \/ d.fault}

\* the documents of the runs that select by identity
MatchPool == {d \in DocPool : d.Name \in {s_dft, S_DFT, a_noext}}

Init == InitFrom(SessionPool, FALSE)

\* the caller takes the outcome; the engine keeps nothing between calls
TakeResult ==
    /\ call # NoCall
    /\ call' = NoCall
    /\ UNCHANGED <<hostVars, comDepth, uiVars>>

\* every public operation of the engine, called in any order, one at a time
Next ==
    \/ call = NoCall /\ GetOpenDocuments
    \/ call = NoCall /\ ActivateDocument
    \/ call = NoCall /\ GetActiveDocumentName
    \/ call = NoCall /\ Disconnect
    \/ call = NoCall /\ GetDraftCustomProperties
    \/ call = NoCall /\ SetActiveDraftCustomProperties
    \/ call = NoCall /\ Diagnose
    \/ TakeResult

Spec == Init /\ [][Next]_vars

\* the enumerator alone
SpecEnum == InitFrom(DocPool, TRUE) /\ [][GetOpenDocuments]_vars

\* the operations that select a document by identity
NextMatch ==
    \/ call = NoCall /\ ActivateDocument
    \/ call = NoCall /\ GetDraftCustomProperties
    \/ call = NoCall /\ SetActiveDraftCustomProperties
    \/ TakeResult
SpecMatch == InitFrom(MatchPool, FALSE) /\ [][NextMatch]_vars

(***************************************************************************)
(* The classifier on its own: any raw type code with any pair of names.    *)
(***************************************************************************)
\* the Type attribute: absent (0), the three codes of the table, another code
RawTypes == {0, 1, 2, 3, 4}

x_asm == <<"x", ".", "a", "s", "m">>
m_PSM == <<"m", ".", "P", "S", "M">>
a_txt == <<"a", ".", "t", "x", "t">>
s_dft_blank == <<"s", ".", "d", "f", "t", " ">>

\* no full name, the recognised extensions in either case, a name without an
\* extension, a name that is only ".dft", an unrecognised extension
ClassifiedFullNames == {EmptyStr, x_s_dft, X_S_DFT, x_b_par, x_asm, m_PSM, a_noext, dft, a_txt}
ClassifiedDisplayNames == {s_dft, S_DFT, b_par, a_noext, Untitled, s_dft_blank}

Classify ==
    \E raw_type \in RawTypes, full_name \in ClassifiedFullNames,
       display_name \in ClassifiedDisplayNames :
        /\ call' = [op |-> "_resolve_document_type",
                    args |-> <<raw_type, full_name, display_name>>,
                    ret |-> _resolve_document_type(raw_type, full_name, display_name)]
        /\ UNCHANGED <<hostVars, comDepth, uiVars>>

NextClassify ==
    \/ call = NoCall /\ Classify
    \/ TakeResult

SpecClassify == InitFrom({}, FALSE) /\ [][NextClassify]_vars

(***************************************************************************)
(* The window, its workers and the host.                                   *)
(***************************************************************************)
UIPool == {d \in DocPool : d.FullName \in {x_s_dft, x_b_par} /\ ~d.fault}

NextUI ==
    \/ TimerFires
    \/ ClickConnect
    \/ ClickRefresh
    \/ ClickDisconnect
    \/ ClickActivate
    \/ SelectDocument
    \/ WorkerRuns
    \/ WorkerFinished
    \/ CloseEventWaits
    \/ CloseEventDisconnects

SpecUI == InitFrom(UIPool, FALSE) /\ [][NextUI]_vars

(***************************************************************************)
(* The reader and the writer against documents of every type: a Part by    *)
(* extension whose raw code is a Draft's, a Draft by extension whose raw    *)
(* code is a Part's, an Assembly and an Unknown by raw code.                *)
(***************************************************************************)
TypedPool ==
    { Doc(b_par, x_b_par, 3, FALSE, "named", <<[Name |-> Rev, Value |-> StrVal(one)]>>, {}, "native"),
      Doc(s_dft, x_s_dft, 1, FALSE, "named", <<[Name |-> Rev, Value |-> StrVal(one)]>>, {}, "native"),
      Doc(a_noext, Missing, 2, FALSE, "named", <<[Name |-> Rev, Value |-> StrVal(one)]>>, {}, "native"),
      Doc(a_noext, Missing, 0, FALSE, "keyed", <<[Name |-> Rev, Value |-> StrVal(one)]>>, {}, "native") }

TypedFullNames == {None, x_b_par, x_s_dft}
TypedNames == {None, a_noext}

ReadByType ==
    \E tf \in TypedFullNames, tn \in TypedNames :
        /\ Record("get_draft_custom_properties", <<tf, tn>>,
                  get_draft_custom_properties(Host, tf, tn))
        /\ UNCHANGED uiVars

WriteByType ==
    \E tf \in TypedFullNames, tn \in TypedNames, cp \in PropertyLists :
        /\ Record("set_active_draft_custom_properties", <<tf, tn, cp>>,
                  set_active_draft_custom_properties(Host, tf, tn, cp))
        /\ UNCHANGED uiVars

NextDraftOnly ==
    \/ call = NoCall /\ ReadByType
    \/ call = NoCall /\ WriteByType
    \/ TakeResult

SpecDraftOnly == InitFrom(TypedPool, FALSE) /\ [][NextDraftOnly]_vars

(***************************************************************************)
(* The reader and the writer against Drafts whose "Rev" property holds a   *)
(* date in each representation, on hosts that keep a date-time natively or *)
(* as text in one of the date patterns.                                    *)
(***************************************************************************)
d2024_03_01T10_00 == d2024_03_01 \o <<"T", "1", "0", ":", "0", "0">>
d2024_03_01_10_00 == d2024_03_01 \o <<" ", "1", "0", ":", "0", "0">>
d03_01_2024 == <<"0", "3", "/", "0", "1", "/", "2", "0", "2", "4">>
d13_03_2024 == <<"1", "3", "/", "0", "3", "/", "2", "0", "2", "4">>

DatedPool ==
    { Doc(s_dft, x_s_dft, 3, FALSE, "named",
          <<[Name |-> Rev, Value |-> DateTimeVal(2024, 3, 1)]>>, {}, "native"),
      Doc(s_dft, x_s_dft, 3, FALSE, "named",
          <<[Name |-> Rev, Value |-> StrVal(d2024_03_01T10_00)]>>, {}, "%Y-%m-%d"),
      Doc(s_dft, x_s_dft, 3, FALSE, "named",
          <<[Name |-> Rev, Value |-> StrVal(d03_01_2024)]>>, {}, "%m/%d/%Y"),
      Doc(s_dft, y_s_dft, 3, FALSE, "named",
          <<[Name |-> Rev, Value |-> StrVal(d13_03_2024)]>>, {}, "%d/%m/%Y"),
      Doc(s_dft, y_s_dft, 3, FALSE, "named",
          <<[Name |-> Rev, Value |-> StrVal(d2024_03_01_10_00)]>>, {}, "native") }

DatedFullNames == {x_s_dft, y_s_dft}

ReadDates ==
    \E tf \in DatedFullNames :
        /\ Record("get_draft_custom_properties", <<tf, None>>,
                  get_draft_custom_properties(Host, tf, None))
        /\ UNCHANGED uiVars

WriteDates ==
    \E tf \in DatedFullNames, cp \in PropertyLists :
        /\ Record("set_active_draft_custom_properties", <<tf, None, cp>>,
                  set_active_draft_custom_properties(Host, tf, None, cp))
        /\ UNCHANGED uiVars

NextDates ==
    \/ call = NoCall /\ ReadDates
    \/ call = NoCall /\ WriteDates
    \/ TakeResult

SpecDates == InitFrom(DatedPool, FALSE) /\ [][NextDates]_vars

(***************************************************************************)
(* A worker on its own: SolidEdgeWorker(action, payload).run() for every   *)
(* action, against hosts that cannot be reached, that have nothing open,   *)
(* and whose documents match, do not match or cannot be read.              *)
(***************************************************************************)
WorkerActions ==
    {"connect", "refresh", "disconnect", "activate", "draft_custom_properties",
     "save_draft_custom_properties"}

WorkerPool == {d \in DocPool : d.FullName \in {y_s_dft, y_S_DFT} \/ d.fault}

WorkerPayloads ==
    { [full_name |-> tf, name |-> None, selection_key |-> y_s_dft \o <<"|">> \o s_dft,
       custom_properties |-> cp] : tf \in {None, y_s_dft}, cp \in PropertyLists }

\* run() has returned: what it emitted and what it left in the host
RunReturned(action, payload, done) ==
    /\ call' = [op |-> "SolidEdgeWorker.run", args |-> <<action, payload>>,
                before |-> Host, emitted |-> done.emitted, escaped |-> done.escaped,
                log |-> done.log]
    /\ active' = done.active
    /\ docs' = done.docs
    /\ UNCHANGED <<reachable, coll, itemFails, comDepth, uiVars>>

Run ==
    \E action \in WorkerActions, payload \in WorkerPayloads :
        RunReturned(action, payload, run(Host, [action |-> action, payload |-> payload]))

NextWorker ==
    \/ call = NoCall /\ Run
    \/ TakeResult

SpecWorker == InitFrom(WorkerPool, FALSE) /\ [][NextWorker]_vars

(***************************************************************************)
(* Properties of the engine                                                *)
(***************************************************************************)
Writer == "set_active_draft_custom_properties"
Reader == "get_draft_custom_properties"
Activator == "activate_document_by_full_name"
Enumerator == "get_open_documents"

\* the documents of host h whose identity matches the target of the call
TargetsOf(h, args) ==
    {i \in 1..Len(h.docs) :
        Matches(_path_key(args[1]), NameKey(args[2]), DocFullKey(h, i), DocNameKey(h, i))}

\* C1: the writer changes a property only on the host's ActiveDocument; when
\* the documents matching the target are open and none of them is the active
\* document, the call returns False and no property of any document changes.
C1_WriterChangesOnlyTheActiveDocument ==
    call.op = Writer =>
        /\ \A n \in 1..Len(call.wrote) : call.wrote[n].doc = call.before.active
        /\ (TargetsOf(call.before, call.args) # {}
                /\ call.before.active \notin TargetsOf(call.before, call.args))
            => /\ ~call.raised => call.ret = FALSE
               /\ docs = call.before.docs

\* C2: every operation calls CoUninitialize exactly once for its CoInitialize
\* on every exit path, as the last thing it does; no runtime initialization
\* is outstanding after any sequence of calls.
C2_SessionsBalanced ==
    /\ comDepth = 0
    /\ call # NoCall =>
          /\ Count(call.log, "CoInitialize") = 1
          /\ Count(call.log, "CoUninitialize") = 1
          /\ call.log[1] = "CoInitialize"
          /\ call.log[Len(call.log)] = "CoUninitialize"

\* C2 witness: a call that was left by an exception inside the document loop,
\* and one is not outstanding
C2_Witness ==
    /\ call # NoCall
    /\ call.raised
    /\ call.op = Writer
    /\ call.before.reachable
    /\ comDepth = 0

\* position of the first e in log, 0 when absent
FirstAt(log, e) == FirstOf({n \in 1..Len(log) : log[n] = e})

\* C3: on every exit path of every operation the handles obtained are
\* released and gc.collect, then CoFreeUnusedLibraries, run before
\* CoUninitialize.  Stated for the calls that obtained the application handle.
C3_ReclaimBeforeTeardown ==
    call # NoCall /\ call.before.reachable =>
        /\ FirstAt(call.log, "gc.collect") # 0
        /\ FirstAt(call.log, "gc.collect") < FirstAt(call.log, "CoFreeUnusedLibraries")
        /\ FirstAt(call.log, "CoFreeUnusedLibraries") < FirstAt(call.log, "CoUninitialize")
        /\ FirstAt(call.log, "GetActiveObject") # 0
              => FirstAt(call.log, "del application") # 0

(***************************************************************************)
(* Properties of the enumerator                                            *)
(***************************************************************************)
Listed(c) == c.op = Enumerator /\ ~c.raised

\* the items of q that are in S, in q's order
Restrict(q, S) == LET In(x) == x \in S IN SelectSeq(q, In)

SameLowerName(a, b) == Lower(a.name) = Lower(b.name)

\* active documents first, the others ascending by lower-cased name
ActiveFirstThenByName(q) ==
    \A m, n \in 1..Len(q) :
        m < n => /\ ~(~q[m].is_active /\ q[n].is_active)
                 /\ (~q[m].is_active /\ ~q[n].is_active)
                        => ~StrLess(Lower(q[n].name), Lower(q[m].name))

\* q holds the items of unsorted, each as often
SameItems(q, unsorted) ==
    /\ Len(q) = Len(unsorted)
    /\ \A x \in Items(q) \cup Items(unsorted) : Len(Restrict(q, {x})) = Len(Restrict(unsorted, {x}))

\* C5 as stated: in every result the active documents precede the others, the
\* others ascend by lower-cased name, any two documents whose lower-cased
\* names are equal keep their iteration order, and a second call against the
\* unchanged host returns the identical sequence.  Stated for the hosts whose
\* Documents collection iterates natively.
C5_SortedAndTiesInIterationOrder ==
    [][ /\ (Listed(call') /\ call'.before.coll.kind = "native") =>
            /\ ActiveFirstThenByName(call'.ret.documents)
            /\ SameItems(call'.ret.documents, UnsortedDocuments(call'.before))
            /\ \A a, b \in Items(call'.ret.documents) :
                  SameLowerName(a, b) =>
                      Restrict(call'.ret.documents, {a, b})
                          = Restrict(UnsortedDocuments(call'.before), {a, b})
        /\ (Listed(call) /\ Listed(call') /\ call'.before = call.before)
              => call'.ret = call.ret ]_vars

\* C5 amended: as above, the iteration order being kept between documents
\* whose lower-cased names are equal and whose is_active flags are equal.
C5_SortedAndStable ==
    [][ /\ Listed(call') =>
            /\ ActiveFirstThenByName(call'.ret.documents)
            /\ SameItems(call'.ret.documents, UnsortedDocuments(call'.before))
            /\ \A a, b \in Items(call'.ret.documents) :
                  (SameLowerName(a, b) /\ a.is_active = b.is_active) =>
                      Restrict(call'.ret.documents, {a, b})
                          = Restrict(UnsortedDocuments(call'.before), {a, b})
        /\ (Listed(call) /\ Listed(call') /\ call'.before = call.before)
              => call'.ret = call.ret ]_vars

\* C5 witness: a result with two different inactive documents whose
\* lower-cased names are equal
C5_Witness ==
    /\ Listed(call)
    /\ \E m, n \in 1..Len(call.ret.documents) :
          /\ m < n
          /\ call.ret.documents[m] # call.ret.documents[n]
          /\ ~call.ret.documents[m].is_active /\ ~call.ret.documents[n].is_active
          /\ SameLowerName(call.ret.documents[m], call.ret.documents[n])

NativeMode == [kind |-> "native", k |-> 0]
IndexedMode == [kind |-> "raises", k |-> 0]

\* C6: with the same items, a collection that offers only Count/Item (native
\* iteration raises before yielding) gives the same set of documents as one
\* that iterates natively; a None collection yields nothing; and in the
\* fallback an index whose Item raises is skipped, the others being visited.
C6_FallbackYieldsTheSameDocuments ==
    Listed(call) =>
        LET h == call.before
            natively == get_open_documents([h EXCEPT !.coll = NativeMode])
        IN  /\ (h.coll = IndexedMode /\ h.itemFails = {}) =>
                  /\ ~natively.raised
                  /\ Items(call.ret.documents) = Items(natively.ret.documents)
            /\ h.coll.kind = "none" => call.examined = <<>>
            /\ h.coll = IndexedMode =>
                  /\ Items(call.examined) = (1..Len(h.docs)) \ h.itemFails
                  /\ \A m, n \in 1..Len(call.examined) :
                        m < n => call.examined[m] < call.examined[n]

\* C6 witness: two documents listed through Count/Item alone
C6_Witness ==
    /\ Listed(call)
    /\ call.before.coll = IndexedMode
    /\ call.before.itemFails = {}
    /\ Len(call.before.docs) >= 2
    /\ Len(call.ret.documents) >= 2

\* C10: a listed document is marked active when its full name equals the
\* active document's; equal display names mark it active only when the active
\* document's full name is unavailable.
C10_ActiveByFullNameFirst ==
    Listed(call) =>
        LET h == call.before
            listed == ListedDocuments(h)
        IN  \A n \in 1..Len(listed) :
                listed[n].is_active <=>
                    \/ Truthy(ActiveFullName(h)) /\ listed[n].full_name = ActiveFullName(h)
                    \/ /\ ~Truthy(ActiveFullName(h))
                       /\ Truthy(ActiveName(h))
                       /\ listed[n].name = ActiveName(h)

(***************************************************************************)
(* Properties of the matcher                                               *)
(***************************************************************************)
\* the positions of the traversal whose document matches the target
MatchingPasses(h, args) ==
    {j \in 1..Len(_iter_documents(h)) : _iter_documents(h)[j] \in TargetsOf(h, args)}

\* C8: the activator returns True exactly when a document of the traversal
\* matches the target; Activate is then invoked once, on the first match in
\* iteration order, and no later document is examined; without a match it
\* returns False and Activate is not invoked.
C8_ActivatesTheFirstMatchOnly ==
    (call.op = Activator /\ ~call.raised) =>
        LET h == call.before
            hits == MatchingPasses(h, call.args)
        IN  /\ call.ret = (hits # {})
            /\ hits # {} =>
                  /\ call.activated = <<_iter_documents(h)[Min(hits)]>>
                  /\ call.examined = SubSeq(_iter_documents(h), 1, Min(hits))
                  /\ active = _iter_documents(h)[Min(hits)]
            /\ hits = {} => (call.activated = <<>> /\ active = h.active)

\* C8 witness: two documents match and the first was activated
C8_Witness ==
    /\ call.op = Activator
    /\ ~call.raised
    /\ Cardinality(MatchingPasses(call.before, call.args)) >= 2
    /\ call.ret = TRUE
    /\ Len(call.examined) < Len(_iter_documents(call.before))

MatchOps == {Activator, Reader, Writer}

\* the selected document has the target's path
SelectedByPath(c) ==
    /\ Truthy(DocFullKey(c.before, c.selected))
    /\ DocFullKey(c.before, c.selected) = _path_key(c.args[1])

\* the selected document has the target's name
SelectedByName(c) ==
    /\ Truthy(NameKey(c.args[2]))
    /\ DocNameKey(c.before, c.selected) = NameKey(c.args[2])

\* C9 as stated: in the activator, the reader and the writer, whenever a
\* non-empty target full name is supplied the selected document has a
\* non-empty normalized full name equal to the normalized target, whatever
\* its name; name equality selects only when the target full name is empty.
C9_PathExcludesNameForNonEmptyTarget ==
    (call.op \in MatchOps /\ call.selected # 0) =>
        IF Truthy(call.args[1]) THEN SelectedByPath(call) ELSE SelectedByName(call)

\* C9 amended: the same, "non-empty" and "empty" being said of the target
\* full name after normalization (_path_key: case-folded and stripped), so
\* that a target of blanks only counts as empty.
C9_PathExcludesName ==
    (call.op \in MatchOps /\ call.selected # 0) =>
        IF Truthy(_path_key(call.args[1])) THEN SelectedByPath(call) ELSE SelectedByName(call)

\* C9 witness: the second document is selected by its path although the
\* first one has the target's name
C9_Witness ==
    /\ call.op \in MatchOps
    /\ call.selected = 2
    /\ Truthy(_path_key(call.args[1]))
    /\ DocNameKey(call.before, 1) = NameKey(call.args[2])
    /\ _iter_documents(call.before) = <<1, 2>>

(***************************************************************************)
(* Properties of the classifier                                            *)
(***************************************************************************)
Classifier == "_resolve_document_type"

\* the extension the classifier decides by: that of full_name, or of
\* display_name when full_name is empty, lower-cased
ExtensionOf(args) == Lower(SplitExt(IF args[2] = EmptyStr THEN args[3] ELSE args[2]))

\* the raw type code table
TypeMap(raw_type) ==
    CASE raw_type = 1 -> "Part"
      [] raw_type = 2 -> "Assembly"
      [] raw_type = 3 -> "Draft"
      [] OTHER -> "Unknown"

\* C7: _resolve_document_type decides by extension first: .par and .psm give
\* Part, .asm gives Assembly and .dft gives Draft, in any letter case and for
\* every raw type code; the table {1: Part, 2: Assembly, 3: Draft} decides only
\* when the extension is absent or unrecognised, and the result is Unknown
\* when neither decides.
C7_ExtensionBeforeRawType ==
    call.op = Classifier =>
        LET extension == ExtensionOf(call.args)
        IN  /\ extension \in {par, psm} => call.ret = "Part"
            /\ extension = asm => call.ret = "Assembly"
            /\ extension = dft => call.ret = "Draft"
            /\ extension \notin {par, psm, asm, dft} => call.ret = TypeMap(call.args[1])

\* C7 witness: an upper-case .DFT display name, no full name and the raw code
\* of a Part, classified as a Draft
C7_Witness ==
    /\ call.op = Classifier
    /\ call.args = <<1, EmptyStr, S_DFT>>
    /\ call.ret = "Draft"

(***************************************************************************)
(* Properties of the window                                                *)
(***************************************************************************)
\* the engine calls in flight: the workers that were started and have not
\* ended, and closeEvent's disconnect on the UI thread
EngineCallsInFlight ==
    Len(workers) + (IF ui.window = "disconnecting" THEN 1 ELSE 0)

\* C4: at most one engine call is in flight at any time: for every
\* interleaving of the triggers no second worker or engine call is started
\* while a worker that was started has not ended.
C4_AtMostOneEngineCallInFlight == EngineCallsInFlight <= 1

(***************************************************************************)
(* Properties of the enumerator: failures and the fallback entry           *)
(***************************************************************************)
\* the handles of the traversal whose fields can be read, in order
Readable(h) == LET Ok(i) == ~h.docs[i].fault IN SelectSeq(_iter_documents(h), Ok)

\* C11: in get_open_documents a failure raised while reading one document's
\* fields omits that document only: the call returns normally with every
\* other open document listed, and the failure does not reach the caller.
\* Stated for the calls that obtained the application handle and read the
\* active document's names.
C11_FailedDocumentIsOmitted ==
    (call.op = Enumerator /\ call.before.reachable
        /\ (call.before.active # 0 => ~call.before.docs[call.before.active].fault)) =>
        LET h == call.before
            readable == Readable(h)
        IN  /\ ~call.raised
            /\ Len(readable) # 0 =>
                  SameItems(call.ret.documents,
                            [j \in 1..Len(readable) |->
                                OpenDocumentInfo(h, readable[j], ActiveName(h), ActiveFullName(h))])


\* C12: when the traversal of the Documents collection lists nothing and the
\* host has an ActiveDocument, get_open_documents returns exactly one entry
\* made from it: its Name or "Untitled", its FullName or that name, the type
\* the classifier gives, is_active true; when there is no ActiveDocument
\* either, it returns the empty list and active_name None.
C12_FallbackToActiveDocument ==
    (Listed(call) /\ _iter_documents(call.before) = <<>>) =>
        LET h == call.before
        IN  IF h.active # 0
            THEN LET handle == h.docs[h.active]
                     name == IF handle.Name = Missing THEN Untitled ELSE handle.Name
                     full_name == IF handle.FullName = Missing THEN name ELSE handle.FullName
                 IN  call.ret.documents =
                         << [name |-> name, full_name |-> full_name,
                             document_type |->
                                 _resolve_document_type(handle.Type, full_name, name),
                             is_active |-> TRUE] >>
            ELSE call.ret.documents = <<>> /\ call.ret.active_name = None

\* C12 witness: nothing listed, and the entry of an active document without
\* a Name is returned as "Untitled"
C12_Witness ==
    /\ Listed(call)
    /\ _iter_documents(call.before) = <<>>
    /\ call.before.active # 0
    /\ call.before.docs[call.before.active].Name = Missing
    /\ Len(call.ret.documents) = 1
    /\ call.ret.documents[1].name = Untitled


(***************************************************************************)
(* Properties of the reader and the writer                                 *)
(***************************************************************************)
\* the positions of the traversal whose document matches the target and is
\* classified as Draft
MatchingDrafts(h, args) ==
    {j \in MatchingPasses(h, args) : DocType(h, _iter_documents(h)[j]) = "Draft"}

\* every field of every document of the traversal can be read
AllReadable(h) == \A j \in 1..Len(_iter_documents(h)) : ~h.docs[_iter_documents(h)[j]].fault

\* C13: get_draft_custom_properties returns the custom properties of a
\* document only if it matches the target and is classified as Draft; when
\* the matching document is not a Draft, or no open document matches, it
\* returns the empty list and does not raise.
C13_ReaderReadsDraftsOnly ==
    call.op = Reader =>
        LET h == call.before
        IN  /\ (~call.raised /\ call.selected # 0) =>
                  /\ call.selected \in TargetsOf(h, call.args)
                  /\ DocType(h, call.selected) = "Draft"
                  /\ call.ret = _read_document_custom_properties(h.docs[call.selected])
            /\ (h.reachable /\ AllReadable(h) /\ MatchingDrafts(h, call.args) = {}) =>
                  /\ ~call.raised
                  /\ call.selected = 0
                  /\ call.ret = <<>>

\* C13 witness: the target's path is that of an open Part that has custom
\* properties, and the reader returned the empty list
C13_Witness ==
    /\ call.op = Reader
    /\ ~call.raised
    /\ \E i \in TargetsOf(call.before, call.args) :
          /\ DocType(call.before, i) = "Part"
          /\ _read_document_custom_properties(call.before.docs[i]) # <<>>
          /\ i \in Items(_iter_documents(call.before))
    /\ MatchingDrafts(call.before, call.args) = {}
    /\ call.ret = <<>>


\* a text of the form YYYY-MM-DD
IsCanonicalDate(text) ==
    /\ Len(text) = 10
    /\ text[5] = "-" /\ text[8] = "-"
    /\ \A i \in {1, 2, 3, 4, 6, 7, 9, 10} : IsDigit(text[i])

\* C14: every property the reader classifies as Date is returned with a value
\* of the form YYYY-MM-DD, whatever the source holds: a native date-time, a
\* YYYY-MM-DD text with a time-of-day or "T" suffix, or a text in the
\* MM/DD/YYYY or DD/MM/YYYY form.
C14_DatesAreCanonical ==
    (call.op = Reader /\ ~call.raised) =>
        \A n \in 1..Len(call.ret) :
            call.ret[n].type = "Date" =>
                /\ call.ret[n].value.k = "str"
                /\ IsCanonicalDate(call.ret[n].value.s)


\* the entry {name: "Rev", type: Date, value: "2024-03-01"}
RevEntry == [name |-> Rev, type |-> "Date", value |-> StrVal(d2024_03_01)]

\* the read that follows the last call, with the same target
ReadBack == get_draft_custom_properties(Host, call.args[1], call.args[2])

\* C15: after the writer wrote {name: "Rev", type: Date, value: "2024-03-01"}
\* to the active Draft and returned True, a following read of the same Draft
\* returns an entry "Rev" of type Date with the value "2024-03-01", however
\* the host keeps the date: natively, or as text in one of the date patterns.
C15_DateRoundTrip ==
    (call.op = Writer /\ ~call.raised /\ call.ret = TRUE
        /\ RevEntry \in Items(call.args[3])
        /\ ReadBack.selected = call.selected) =>
        /\ ~ReadBack.raised
        /\ RevEntry \in Items(ReadBack.ret)


\* C16: the writer writes only on a document classified as Draft; when the
\* documents matching the target include the active document and none of
\* them is classified as Draft (they are Part, Assembly or Unknown), the call
\* returns False and no property is updated or added.
C16_WriterWritesDraftsOnly ==
    call.op = Writer =>
        LET h == call.before
        IN  /\ \A n \in 1..Len(call.wrote) : DocType(h, call.wrote[n].doc) = "Draft"
            /\ (h.reachable /\ AllReadable(h) /\ h.active \in TargetsOf(h, call.args)
                    /\ MatchingDrafts(h, call.args) = {}) =>
                  /\ ~call.raised
                  /\ call.ret = FALSE
                  /\ call.wrote = <<>>
                  /\ docs = h.docs

\* C16 witness: the active document is a Part at the target's path, it has a
\* custom property set, the call brought a property to write and returned
\* False
C16_Witness ==
    /\ call.op = Writer
    /\ ~call.raised
    /\ call.before.active \in TargetsOf(call.before, call.args)
    /\ call.before.active \in Items(_iter_documents(call.before))
    /\ DocType(call.before, call.before.active) = "Part"
    /\ HasCustomSet(call.before.docs[call.before.active])
    /\ RevEntry \in Items(call.args[3])
    /\ call.ret = FALSE
    /\ docs = call.before.docs


\* C17: when the Draft the writer selected has no custom property set that
\* can be located (no set whose name contains "custom", and the lookup by the
\* key "Custom" fails), the call returns False and no property is updated or
\* added.
C17_NoCustomSetNoWrite ==
    (call.op = Writer /\ ~call.raised /\ call.selected # 0
        /\ call.before.docs[call.selected].propSet \in {"absent", "noprops"}) =>
        /\ call.ret = FALSE
        /\ call.wrote = <<>>
        /\ docs = call.before.docs

\* C17 witness: the active Draft matches, has a Properties collection without
\* a custom set, the call brought a property to write and returned False
C17_Witness ==
    /\ call.op = Writer
    /\ ~call.raised
    /\ call.selected # 0
    /\ call.selected = call.before.active
    /\ call.before.docs[call.selected].propSet = "absent"
    /\ RevEntry \in Items(call.args[3])
    /\ call.ret = FALSE


(***************************************************************************)
(* Properties of the probe                                                 *)
(***************************************************************************)
Probe == "diagnose_solid_edge_connection"

\* C18: diagnose_solid_edge_connection tolerates the failure of each field on
\* its own: when reading the active document's name, the Documents count or
\* the Visible flag fails, by whatever error, that field takes its default
\* (None, -1, False), the other fields are reported and the probe returns.
C18_ProbeToleratesEachField ==
    (call.op = Probe /\ call.before.reachable) =>
        LET h == call.before
            nameFails == h.active # 0 /\ h.docs[h.active].fault
        IN  /\ ~call.raised
            /\ call.ret.active_document =
                  IF h.active = 0 \/ nameFails THEN None
                  ELSE GetAttr(h.docs[h.active].Name, None)
            /\ call.ret.documents_count = IF h.coll.kind = "none" THEN -1 ELSE Len(h.docs)
            /\ call.ret.visible \in BOOLEAN


(***************************************************************************)
(* Properties of the worker                                                *)
(***************************************************************************)
WorkerRun == "SolidEdgeWorker.run"

\* the engine call of the action raised, the activation found no match, or
\* the write returned False, against host h
EngineCallFailed(h, action, payload) ==
    LET activated == activate_document_by_full_name(h, payload.full_name, payload.name)
        saved == set_active_draft_custom_properties(h, payload.full_name, payload.name,
                                                    payload.custom_properties)
    IN  CASE action \in {"connect", "refresh"} -> get_open_documents(h).raised
          [] action = "disconnect" -> disconnect_from_solid_edge(h).raised
          [] action = "activate" ->
                \/ activated.raised
                \/ activated.ret = FALSE
                \/ get_open_documents([h EXCEPT !.active = activated.active]).raised
          [] action = "draft_custom_properties" ->
                get_draft_custom_properties(h, payload.full_name, payload.name).raised
          [] action = "save_draft_custom_properties" -> saved.raised \/ saved.ret = FALSE

\* C19: for each worker action, whether the engine call returns or raises,
\* run lets no exception escape and emits finished exactly once, for its
\* action, with a payload that carries ok and message; ok is False whenever
\* the engine call raised, the activation found no match, or the write
\* returned False.
C19_RunEmitsOnce ==
    call.op = WorkerRun =>
        /\ ~call.escaped
        /\ Len(call.emitted) = 1
        /\ call.emitted[1].action = call.args[1]
        /\ {"ok", "message"} \subseteq DOMAIN call.emitted[1].payload
        /\ call.emitted[1].payload.ok \in BOOLEAN
        /\ EngineCallFailed(call.before, call.args[1], call.args[2])
              => call.emitted[1].payload.ok = FALSE

\* C19 witness: a save on the active Draft that has no custom property set:
\* the writer returned False and the payload says ok = False
C19_Witness ==
    /\ call.op = WorkerRun
    /\ call.args[1] = "save_draft_custom_properties"
    /\ ~set_active_draft_custom_properties(call.before, call.args[2].full_name,
                                           call.args[2].name,
                                           call.args[2].custom_properties).raised
    /\ EngineCallFailed(call.before, call.args[1], call.args[2])
    /\ Len(call.emitted) = 1
    /\ call.emitted[1].payload.ok = FALSE


ConnectError == "Error: Solid Edge must be open with at least one active document."

\* C20: the connect/refresh result tells a host that cannot be reached from a
\* reachable host with nothing open: when the automation handle cannot be
\* obtained the payload is ok = False with the error message and no
\* documents, also when the diagnostics probe fails; when the host is
\* reachable with no documents and no active document the payload is
\* ok = True with no documents.
C20_UnreachableIsNotEmpty ==
    (call.op = WorkerRun /\ call.args[1] \in {"connect", "refresh"}) =>
        LET h == call.before
            payload == call.emitted[1].payload
        IN  /\ Len(call.emitted) = 1
            /\ ~h.reachable =>
                  /\ payload.ok = FALSE
                  /\ payload.message[1] = ConnectError
                  /\ payload.documents = <<>>
            /\ (h.reachable /\ h.docs = <<>> /\ h.active = 0) =>
                  /\ payload.ok = TRUE
                  /\ payload.documents = <<>>

\* C20 witness: a connect against a host that cannot be reached, the probe
\* failing too: ok = False and the bare error message
C20_Witness ==
    /\ call.op = WorkerRun
    /\ call.args[1] = "connect"
    /\ ~call.before.reachable
    /\ diagnose_solid_edge_connection(call.before).raised
    /\ call.emitted[1].payload.ok = FALSE
    /\ call.emitted[1].payload.message = <<ConnectError>>

(***************************************************************************)
(* _read_document_custom_properties on its own: a custom set holding any   *)
(* properties of each kind of value, named, blank-named and unnamed.       *)
(***************************************************************************)
MaxProps == 2

d2024_03_01Tx == d2024_03_01 \o <<"T", "x">>
d2024_13_01 == <<"2", "0", "2", "4", "-", "1", "3", "-", "0", "1">>
True_text == <<"T", "r", "u", "e">>

\* what a property of the host can hold
HeldValues ==
    { BoolVal(TRUE), BoolVal(FALSE), NumVal(0), NumVal(7), DateTimeVal(2024, 3, 1),
      NoneVal, StrVal(EmptyStr), StrVal(blank), StrVal(one), StrVal(True_text),
      StrVal(blank \o d2024_03_01 \o blank), StrVal(d03_01_2024), StrVal(d13_03_2024),
      StrVal(d2024_13_01), StrVal(d2024_03_01T10_00), StrVal(d2024_03_01Tx) }

HeldProperties ==
    {[Name |-> Rev, Value |-> v] : v \in HeldValues}
        \cup {[Name |-> n, Value |-> StrVal(one)] : n \in {EmptyStr, blank}}

ReadCustomProperties ==
    \E props \in SeqsUpTo(HeldProperties, MaxProps) :
        /\ call' = [op |-> "_read_document_custom_properties", args |-> <<props>>,
                    ret |-> _read_document_custom_properties(
                                Doc(s_dft, x_s_dft, 3, FALSE, "named", props, {}, "native"))]
        /\ UNCHANGED <<hostVars, comDepth, uiVars>>

NextInfer ==
    \/ call = NoCall /\ ReadCustomProperties
    \/ TakeResult

SpecInfer == InitFrom({}, FALSE) /\ [][NextInfer]_vars

PropertyReader == "_read_document_custom_properties"

\* the type the ordered predicates give a value: Boolean, Number, native
\* date, then the trimmed string form under the three date patterns
TypeByOrderedPredicates(value) ==
    IF value.k = "bool" THEN "Boolean"
    ELSE IF value.k = "num" THEN "Number"
    ELSE IF value.k = "datetime" THEN "Date"
    ELSE IF \E n \in 1..Len(DateFormats) :
                StrPTime(StrOrEmptyStripped(value), DateFormats[n]) # NoDate
    THEN "Date"
    ELSE "Text"

HasName(p) == Strip(p.Name) # EmptyStr

\* C21: the reader returns one entry for each property with a non-empty name
\* and none for the others, and the type of an entry is the first that holds
\* of: a boolean is Boolean, another number is Number, a native date is Date,
\* a value whose trimmed string form parses under YYYY-MM-DD, MM/DD/YYYY or
\* DD/MM/YYYY is Date, anything else (empty and None too) is Text.
C21_TypeByOrderedPredicates ==
    call.op = PropertyReader =>
        LET kept == SelectSeq(call.args[1], HasName)
        IN  /\ Len(call.ret) = Len(kept)
            /\ \A n \in 1..Len(kept) :
                   \E e \in 1..Len(call.ret) :
                       /\ call.ret[e].name = Strip(kept[n].Name)
                       /\ call.ret[e].type = TypeByOrderedPredicates(kept[n].Value)

(***************************************************************************)
(* The writer against the active Draft x\s.dft: its custom set empty or    *)
(* holding "Rev", on hosts that take every write, that do not let "Rev" be *)
(* assigned, or that refuse "on" altogether.                               *)
(***************************************************************************)
two == <<"2">>
on == <<"o", "n">>

WrittenPool ==
    { Doc(s_dft, x_s_dft, 3, FALSE, "named", <<[Name |-> Rev, Value |-> StrVal(one)]>>, {},
          "native"),
      [Doc(s_dft, x_s_dft, 3, FALSE, "named", <<[Name |-> Rev, Value |-> StrVal(one)]>>, {},
           "native") EXCEPT !.readonly = {Rev}],
      Doc(s_dft, x_s_dft, 3, FALSE, "named", <<>>, {on}, "native"),
      Doc(b_par, x_b_par, 1, FALSE, "named", <<>>, {}, "native") }

\* entries of the editor: two for "Rev" (one with blanks around the name),
\* one for "on", one whose name is blank
WrittenEntries ==
    { [name |-> Rev, type |-> "Text", value |-> StrVal(two)],
      [name |-> blank \o Rev \o blank, type |-> "Number", value |-> StrVal(one)],
      [name |-> on, type |-> "Boolean", value |-> StrVal(<<"Y", "e", "s">>)],
      [name |-> blank, type |-> "Number", value |-> StrVal(one)] }

WrittenLists == SeqsUpTo(WrittenEntries, MaxEntries + 1)

\* a set that a host lets grow is written to until it holds MaxProps
\* properties
WriteProperties ==
    \E cp \in WrittenLists :
        /\ \A i \in 1..Len(docs) : Len(docs[i].props) < MaxProps
        /\ Record("set_active_draft_custom_properties", <<x_s_dft, None, cp>>,
                  set_active_draft_custom_properties(Host, x_s_dft, None, cp))
        /\ UNCHANGED uiVars

NextWrite ==
    \/ call = NoCall /\ WriteProperties
    \/ TakeResult

SpecWrite == InitFrom(WrittenPool, FALSE) /\ [][NextWrite]_vars

\* the names an entry list writes, and the value its last entry for a name
\* carries after coercion
WrittenNames(entries) == {Strip(entries[n].name) : n \in 1..Len(entries)} \ {EmptyStr}

LastCoerced(entries, key) ==
    LET n == Max({m \in 1..Len(entries) : Strip(entries[m].name) = key})
    IN  _coerce_custom_property_value(entries[n].value, entries[n].type)

Named(props, key) == {n \in 1..Len(props) : props[n].Name = key}

\* C22: after a write that returned True, the custom set of the written
\* document holds exactly one property for each written name, carrying the
\* coerced value; a name that was in the set before was updated and not
\* added again, a name that was not was added once; the other properties
\* and, with them, the entries with an empty name, changed nothing.
C22_UpdateElseAdd ==
    (call.op = Writer /\ ~call.raised /\ call.ret = TRUE) =>
        LET before == call.before.docs[call.selected].props
            after == docs[call.selected].props
            names == WrittenNames(call.args[3])
        IN  /\ \A key \in names :
                   /\ Cardinality(Named(after, key)) = 1
                   /\ \A n \in Named(after, key) :
                          after[n].Value = LastCoerced(call.args[3], key)
            /\ Len(after) = Len(before) + Cardinality({key \in names : Named(before, key) = {}})
            /\ \A n \in 1..Len(before) : before[n].Name \notin names => after[n] = before[n]


\* the entries of a list before its first entry that the host refuses
AppliedPrefix(d, entries) ==
    LET refused == {n \in 1..Len(entries) : Strip(entries[n].name) \in d.rejects}
    IN  SubSeq(entries, 1, Min(refused) - 1)

\* the values the properties of a name carry, in the order of the set
ValuesOf(props, key) == [n \in 1..Cardinality(Named(props, key)) |->
                            props[CHOOSE m \in Named(props, key) :
                                      Cardinality({l \in Named(props, key) : l <= m}) = n].Value]

\* C23: when the update and the Add of an entry both fail, the call raises,
\* the entries before it stay applied (their properties carry the new
\* values), and the properties of every other name, those of the later
\* entries among them, are as they were before the call: nothing is rolled
\* back and nothing later is applied.
C23_NotTransactional ==
    (call.op = Writer /\ call.selected # 0
        /\ \E n \in 1..Len(call.args[3]) :
               Strip(call.args[3][n].name) \in call.before.docs[call.selected].rejects) =>
        LET d == call.before.docs[call.selected]
            after == docs[call.selected].props
            applied == AppliedPrefix(d, call.args[3])
        IN  /\ call.raised
            /\ \A key \in WrittenNames(applied) :
                   /\ Named(after, key) # {}
                   /\ after[Max(Named(after, key))].Value = LastCoerced(applied, key)
            /\ \A n \in 1..Len(call.args[3]) :
                   Strip(call.args[3][n].name) \notin WrittenNames(applied) =>
                       ValuesOf(after, Strip(call.args[3][n].name))
                           = ValuesOf(d.props, Strip(call.args[3][n].name))

\* a write of two entries raised at the second, after the first was applied
C23_Witness ==
    /\ call.op = Writer
    /\ call.raised
    /\ Len(call.args[3]) = 2
    /\ Strip(call.args[3][1].name) = Rev
    /\ Strip(call.args[3][2].name) = on
    /\ Len(call.wrote) = 1
    /\ docs[call.selected].props # call.before.docs[call.selected].props


\* C24: in every result of get_open_documents at most one DocumentInfo has
\* is_active = true (stated for the hosts whose Documents collection iterates
\* natively, where every open document is listed once).
C24_AtMostOneActive ==
    (Listed(call) /\ call.before.coll = NativeMode) =>
        Cardinality({n \in 1..Len(call.ret.documents) : call.ret.documents[n].is_active}) <= 1

\* C25: a traversal yields each item of the collection at most once, also
\* when native iteration raises after some items and Count/Item starts again
\* at index 1; so get_open_documents lists no more documents than are open.
C25_EachItemAtMostOnce ==
    Listed(call) =>
        LET yielded == _iter_documents(call.before)
        IN  /\ \A i, j \in 1..Len(yielded) : i # j => yielded[i] # yielded[j]
            /\ call.before.docs # <<>> =>
                   Len(call.ret.documents) <= Len(call.before.docs)


(***************************************************************************)
(* Frame of the engine's operations                                        *)
(***************************************************************************)
ActiveNameOp == "get_active_document_name"
DisconnectOp == "disconnect_from_solid_edge"

ReadOnlyOps == {Enumerator, Reader, Probe, ActiveNameOp, DisconnectOp}

\* C26: get_open_documents, get_draft_custom_properties,
\* diagnose_solid_edge_connection, get_active_document_name and
\* disconnect_from_solid_edge never call Activate and never update or add a
\* property, so they leave the host as it was; activate_document_by_full_name
\* never updates or adds a property; set_active_draft_custom_properties never
\* calls Activate and leaves the active document the active one.
C26_Frame ==
    /\ call.op \in ReadOnlyOps =>
           /\ Count(call.log, "Activate") = 0 /\ call.activated = <<>>
           /\ Count(call.log, "write") = 0 /\ call.wrote = <<>>
           /\ docs = call.before.docs
           /\ active = call.before.active
    /\ call.op = Activator =>
           /\ Count(call.log, "write") = 0 /\ call.wrote = <<>>
           /\ docs = call.before.docs
    /\ call.op = Writer =>
           /\ Count(call.log, "Activate") = 0 /\ call.activated = <<>>
           /\ active = call.before.active

\* the writer has written a property to the second of two open documents,
\* which was and is the active one
C26_Witness ==
    /\ call.op = Writer
    /\ call.wrote # <<>>
    /\ docs # call.before.docs
    /\ active = 2
    /\ call.before.active = 2


(***************************************************************************)
(* Properties of the window                                                *)
(***************************************************************************)
\* C27: from _start_worker until _on_worker_finished runs for that worker
\* (the worker is running, or its finished signal waits for the UI thread),
\* Connect, Refresh, Disconnect and the document list are disabled.
C27_DisabledWhileWorkerOutstanding ==
    (ui.window = "open" /\ (workers # <<>> \/ ui.signals # <<>>)) =>
        /\ ~ui.connect_btn
        /\ ~ui.refresh_btn
        /\ ~ui.disconnect_btn
        /\ ~ui.doc_list


(***************************************************************************)
(* The window against every outcome a worker can report: each of the four  *)
(* actions it starts, succeeding with any list of documents or failing.    *)
(***************************************************************************)
WindowActions == {"connect", "refresh", "disconnect", "activate"}

ListedLists ==
    { <<>>,
      <<DocumentInfo(s_dft, x_s_dft, "Draft", TRUE)>>,
      <<DocumentInfo(b_par, x_b_par, "Part", FALSE)>>,
      <<DocumentInfo(s_dft, x_s_dft, "Draft", TRUE), DocumentInfo(b_par, x_b_par, "Part", FALSE)>> }

\* the payloads the handlers of the worker emit for an action
Outcomes(action) ==
    IF action = "disconnect"
    THEN { WorkerPayload(TRUE, <<"Disconnected.">>, <<>>, None),
           WorkerPayload(FALSE, <<"Error: Failed to disconnect from Solid Edge.">>, <<>>, None) }
    ELSE IF action = "activate"
    THEN { WorkerPayload(TRUE, <<"Selected document activated in Solid Edge.">>, l, None) :
               l \in ListedLists \ {<<>>} }
         \cup { WorkerPayload(FALSE, <<"Error: Could not activate the selected document.">>,
                              <<>>, None),
                WorkerPayload(FALSE, <<"Error: Failed to activate document.">>, <<>>, None) }
    ELSE { WorkerPayload(TRUE, IF l # <<>> THEN <<"Loaded open document(s).", Len(l)>>
                               ELSE <<"Connected, but no open documents were found.">>,
                         l, None) : l \in ListedLists }
         \cup { WorkerPayload(FALSE,
                    <<"Error: Solid Edge must be open with at least one active document.">>,
                    <<>>, None) }

\* a worker's finished signal reaches the UI thread's queue
FinishedEmitted ==
    /\ ui.signals = <<>>
    /\ \E action \in WindowActions :
           \E payload \in Outcomes(action) :
               ui' = [ui EXCEPT !.signals = <<[action |-> action, payload |-> payload]>>]
    /\ UNCHANGED <<hostVars, comDepth, call, workers>>

NextSignals ==
    \/ FinishedEmitted
    \/ WorkerFinished
    \/ SelectDocument

SpecSignals == InitFrom({}, FALSE) /\ [][NextSignals]_vars

\* the fields of the window a failed action must leave alone
Shown(u) ==
    [connected |-> u._connected, documents |-> u._documents,
     selected |-> u._selected_document, key |-> u._selection_key]

\* C28: a failed refresh or activate leaves the connected flag, the documents
\* and the selection as they were; a failed connect sets connected to False
\* and empties the documents; a successful disconnect sets connected to False
\* and clears the documents, the selected document and both selection keys;
\* a failed disconnect changes none of them.
C28_FinishedFrame ==
    [][WorkerFinished =>
          LET action == Head(ui.signals).action
              ok == Head(ui.signals).payload.ok
          IN  /\ (action \in {"refresh", "activate"} /\ ~ok) => Shown(ui') = Shown(ui)
              /\ (action = "connect" /\ ~ok) =>
                     ~ui'._connected /\ ui'._documents = <<>>
              /\ (action = "disconnect" /\ ok) =>
                     /\ ~ui'._connected
                     /\ ui'._documents = <<>>
                     /\ ui'._selected_document = NoDocument
                     /\ ui'._selection_key = None
                     /\ ui'._preferred_selection_key = None
              /\ (action = "disconnect" /\ ~ok) =>
                     /\ Shown(ui') = Shown(ui)
                     /\ ui'._preferred_selection_key = ui._preferred_selection_key]_vars

\* a failed disconnect was handled by a window that is connected, lists two
\* documents and has the second selected
C28_Witness ==
    /\ ui._status_message = <<"error", <<"Error: Failed to disconnect from Solid Edge.">>>>
    /\ ui.signals = <<>>
    /\ ui._connected
    /\ Len(ui._documents) = 2
    /\ ui._selected_document = <<ui._documents[2]>>


(***************************************************************************)
(* The worker's activate action on its own, against two Drafts that share  *)
(* a display name and a document that cannot be read.                      *)
(***************************************************************************)
ActivatedPool == {d \in DocPool : d.FullName \in {x_s_dft, y_s_dft} \/ d.fault}

ActivatePayloads == {[full_name |-> tf, name |-> tn] : tf \in {None, y_s_dft}, tn \in {None, s_dft}}

RunActivate ==
    \E payload \in ActivatePayloads :
        RunReturned("activate", payload, run(Host, [action |-> "activate", payload |-> payload]))

NextActivate ==
    \/ call = NoCall /\ RunActivate
    \/ TakeResult

SpecActivate == InitFrom(ActivatedPool, FALSE) /\ [][NextActivate]_vars

Places(log, e) == {n \in 1..Len(log) : log[n] = e}

\* C29: in the activate action the enumeration runs only after the
\* activation returned True, in a session of its own that begins after the
\* activation's session was torn down; when the activation returns False or
\* raises there is no enumeration and the payload has ok = False and no
\* documents; when the action succeeds, the list begins with the activated
\* document, marked active.
C29_ActivateThenList ==
    (call.op = WorkerRun /\ call.args[1] = "activate") =>
        LET h == call.before
            activated == activate_document_by_full_name(h, call.args[2].full_name,
                                                        call.args[2].name)
            payload == call.emitted[1].payload
            inits == Places(call.log, "CoInitialize")
            teardowns == Places(call.log, "CoUninitialize")
        IN  /\ (activated.raised \/ ~activated.ret) =>
                   /\ Cardinality(inits) = 1
                   /\ Places(call.log, "ActiveDocument") = {}
                   /\ ~payload.ok
                   /\ payload.documents = <<>>
            /\ (~activated.raised /\ activated.ret) =>
                   /\ Cardinality(inits) = 2 /\ Cardinality(teardowns) = 2
                   /\ Min(teardowns) + 1 = Max(inits)
                   /\ Max(teardowns) = Len(call.log)
                   /\ Places(call.log, "Activate") # {}
                   /\ Max(Places(call.log, "Activate")) < Min(teardowns)
                   /\ \A n \in Places(call.log, "ActiveDocument") : n > Max(inits)
            /\ payload.ok =>
                   /\ payload.documents # <<>>
                   /\ payload.documents[1].is_active
                   /\ payload.documents[1].full_name = h.docs[activated.selected].FullName


(***************************************************************************)
(* The window under fair scheduling: a worker thread that was started runs *)
(* to its end (every host call returns or raises), the oldest one          *)
(* included; the event loop of an open window delivers a queued finished   *)
(* signal; the disconnect of closeEvent returns.  The first two are weak   *)
(* fairness of OldestRuns and of WorkerFinished with the enabling          *)
(* condition of each written out: a step of either always changes workers  *)
(* or the queue, so OldestRuns is enabled exactly when a worker is running *)
(* and WorkerFinished exactly when the window is open and a signal is      *)
(* queued.                                                                 *)
(***************************************************************************)
OldestRuns == workers # <<>> /\ WorkerRan(1, run(Host, workers[1]))

\* the hosts of SpecUI whose Documents collection is None or iterates natively
LiveInit ==
    /\ InitFrom(UIPool, FALSE)
    /\ coll.kind # "raises"

SpecUILive ==
    /\ LiveInit
    /\ [][NextUI]_vars
    /\ []<>(workers = <<>>) \/ []<><<OldestRuns>>_vars
    /\ []<>(ui.window # "open" \/ ui.signals = <<>>) \/ []<><<WorkerFinished>>_vars
    /\ WF_vars(CloseEventDisconnects)

\* one finished signal is queued, after those already queued, for the one
\* worker that ended, and it carries that worker's action
OneSignalPerWorker ==
    Len(workers') < Len(workers) =>
        /\ Len(workers') = Len(workers) - 1
        /\ Len(ui'.signals) = Len(ui.signals) + 1
        /\ SubSeq(ui'.signals, 1, Len(ui.signals)) = ui.signals
        /\ \E i \in 1..Len(workers) :
              /\ workers' = SubSeq(workers, 1, i - 1) \o SubSeq(workers, i + 1, Len(workers))
              /\ ui'.signals[Len(ui'.signals)].action = workers[i].action

\* a queued signal leaves the queue from its head, by one run of
\* _on_worker_finished with its action and payload
OneHandlerPerSignal ==
    ui'.signals # ui.signals /\ Len(ui'.signals) <= Len(ui.signals) =>
        /\ workers' = workers
        /\ ui' = [_on_worker_finished(ui, Head(ui.signals).action, Head(ui.signals).payload)
                     EXCEPT !.signals = Tail(ui.signals)]

Outstanding == Len(workers) + Len(ui.signals)

Processing == ui._status_message[1] = "processing"

Unlocked == ui.connect_btn \/ ui.refresh_btn \/ ui.disconnect_btn

====
